---- MODULE Spec2Model ----
(***************************************************************************)
(* apio - runtime RP2350 PIO assembler and disassembler.                   *)
(*                                                                         *)
(* The program builder of include/apio.h is modelled for both of its       *)
(* back ends at once: `hw' is the build with APIO_EMULATION undefined (the *)
(* builder's local variables of APIO_ASM_INIT plus the memory-mapped       *)
(* registers it writes), `emu' is the build with APIO_EMULATION defined    *)
(* (the _apio_emulated_pio shadow structure).  Every builder call is one   *)
(* action that runs the macro's expansion on both.  The disassembler of    *)
(* include/apio_dis.h is modelled as operators on 16-bit words that build  *)
(* the output text character by character.                                 *)
(***************************************************************************)
EXTENDS Integers, Sequences, FiniteSets, TLC

VARIABLES hw, emu, gh, dis

vars == <<hw, emu, gh, dis>>

(***************************************************************************)
(* Program constants.                                                      *)
(***************************************************************************)
APIO_MAX_PIO_INSTRS == 32
APIO_MAX_SMS_PER_BLOCK == 4
APIO_MAX_PIO_BLOCKS == 3
APIO_MAX_FIFO_DEPTH == 4
MAX_PRE_INSTRS == 16

Blocks == 0 .. (APIO_MAX_PIO_BLOCKS - 1)
SMs == 0 .. (APIO_MAX_SMS_PER_BLOCK - 1)
InstrIdx == 0 .. (APIO_MAX_PIO_INSTRS - 1)

(***************************************************************************)
(* Bounds of the model.                                                    *)
(***************************************************************************)
\* builder calls explored after the initial state
MaxOps == 4
\* instructions already emitted to block 0 in the second initial state
Prefill == 30
\* stores past the end of the instruction buffer explored by SpecCap
MaxOverrun == 2

(***************************************************************************)
(* C integer arithmetic.  uint8_t / uint16_t values and int expressions    *)
(* that stay below 2^31 are naturals; a uint32_t is the pair <<hi, lo>> of *)
(* its 16-bit halves, so that values with bit 31 set keep their width.     *)
(***************************************************************************)
Pow2(k) == 2 ^ k

RECURSIVE BitAnd(_, _)
BitAnd(a, b) ==
    IF a = 0 \/ b = 0 THEN 0
    ELSE (a % 2) * (b % 2) + 2 * BitAnd(a \div 2, b \div 2)

RECURSIVE BitOr(_, _)
BitOr(a, b) ==
    IF a = 0 THEN b
    ELSE IF b = 0 THEN a
    ELSE (IF a % 2 = 1 \/ b % 2 = 1 THEN 1 ELSE 0)
         + 2 * BitOr(a \div 2, b \div 2)

Shl(a, k) == a * Pow2(k)
Shr(a, k) == a \div Pow2(k)

U8(n) == n % 256
U16(n) == n % 65536

\* conversion of an int to uint32_t (two's complement for a negative int)
U32(n) ==
    IF n >= 0 THEN <<n \div 65536, n % 65536>>
    ELSE <<65535 - ((-n - 1) \div 65536), 65535 - ((-n - 1) % 65536)>>
Or32(a, b) == <<BitOr(a[1], b[1]), BitOr(a[2], b[2])>>
And32(a, b) == <<BitAnd(a[1], b[1]), BitAnd(a[2], b[2])>>
Shl32(a, k) ==
    IF k >= 16
    THEN <<(a[2] * Pow2(k - 16)) % 65536, 0>>
    ELSE <<(a[1] * Pow2(k) + (a[2] * Pow2(k)) \div 65536) % 65536,
           (a[2] * Pow2(k)) % 65536>>
Shr32(a, k) ==
    IF k >= 16
    THEN <<0, a[1] \div Pow2(k - 16)>>
    ELSE <<a[1] \div Pow2(k),
           a[2] \div Pow2(k) + (a[1] % Pow2(k)) * Pow2(16 - k)>>
\* the value of a uint32_t known to be below 2^15
Low(a) == a[2]
ZERO32 == U32(0)

(***************************************************************************)
(* apio_reg.h: register images of one state machine.                       *)
(***************************************************************************)
\* faulty variant: the fractional part is left in bits 7:0
APIO_CLKDIV_frac_low(INT, FRAC) ==
    Or32(Shl32(U32(BitAnd(INT, 65535)), 16), U32(BitAnd(FRAC, 255)))
APIO_CLKDIV(INT, FRAC) ==
    Or32(Shl32(U32(BitAnd(INT, 65535)), 16), Shl32(U32(BitAnd(FRAC, 255)), 8))
APIO_CLKDIV_INT_FROM_REG(REG) == Low(And32(Shr32(REG, 16), U32(65535)))
APIO_CLKDIV_FRAC_FROM_REG(REG) == Low(And32(Shr32(REG, 8), U32(255)))

APIO_WRAP_BOTTOM_AS_REG(X) == Shl32(U32(BitAnd(X, 31)), 7)
\* faulty variant: wrap top shifted into the wrap bottom field's position
APIO_WRAP_TOP_AS_REG_shift11(X) == Shl32(U32(BitAnd(X, 31)), 11)
APIO_WRAP_TOP_AS_REG(X) == Shl32(U32(BitAnd(X, 31)), 12)
APIO_EXECCTRL_JMP_PIN(X) == Shl32(U32(BitAnd(X, 31)), 24)
APIO_WRAP_TOP_FROM_REG(REG) == Low(And32(Shr32(REG, 12), U32(31)))
APIO_WRAP_BOTTOM_FROM_REG(REG) == Low(And32(Shr32(REG, 7), U32(31)))
APIO_STATUS_SEL_TXLEVEL == Shl32(U32(0), 5)
APIO_STATUS_SEL_RXLEVEL == Shl32(U32(1), 5)
APIO_STATUS_SEL_IRQ == Shl32(U32(2), 5)
APIO_STATUS_N(n) == U32(BitAnd(n, 31))

\* SHIFTCTRL and PINCTRL helpers.  The operands are ints and the result is
\* stored in a uint32_t; APIO_SIDE_SET_COUNT shifts into bit 31, which the
\* compiler carries out in two's complement.
APIO_IN_COUNT(X) == Shl32(U32(BitAnd(X, 31)), 0)
APIO_AUTOPUSH == Shl32(U32(1), 16)
APIO_AUTOPULL == Shl32(U32(1), 17)
APIO_IN_SHIFTDIR_R == Shl32(U32(1), 18)
APIO_IN_SHIFTDIR_L == Shl32(U32(0), 18)
APIO_OUT_SHIFTDIR_R == Shl32(U32(1), 19)
APIO_OUT_SHIFTDIR_L == Shl32(U32(0), 19)
APIO_PUSH_THRESH(X) == Shl32(U32(BitAnd(X, 31)), 20)
APIO_PULL_THRESH(X) == Shl32(U32(BitAnd(X, 31)), 25)

APIO_OUT_BASE(X) == Shl32(U32(BitAnd(X, 31)), 0)
APIO_SET_BASE(X) == Shl32(U32(BitAnd(X, 31)), 5)
APIO_SIDE_SET_BASE(X) == Shl32(U32(BitAnd(X, 31)), 10)
APIO_IN_BASE(X) == Shl32(U32(BitAnd(X, 31)), 15)
\* faulty variant: the count is seven bits wide
APIO_OUT_COUNT_seven_bits(X) == Shl32(U32(BitAnd(X, 127)), 20)
APIO_OUT_COUNT(X) == Shl32(U32(BitAnd(X, 63)), 20)
APIO_SET_COUNT(X) == Shl32(U32(BitAnd(X, 7)), 26)
APIO_SIDE_SET_COUNT(X) == Shl32(U32(BitAnd(X, 7)), 29)

APIO_CTRL_SM_ENABLE(X) == Shl(BitAnd(X, 15), 0)

pio_sm_reg_t(v) ==
    [clkdiv |-> v, execctrl |-> v, shiftctrl |-> v, addr |-> v,
     instr |-> v, pinctrl |-> v]

(***************************************************************************)
(* apio.h: instruction words.                                              *)
(***************************************************************************)
APIO_ADD_DELAY(INST, DELAY) == BitOr(INST, Shl(BitAnd(DELAY, 31), 8))
\* faulty variant: the word of APIO_JMP_NOT_X, a conditional jump
APIO_JMP_as_not_x(X) == BitOr(32, BitAnd(X, 31))
APIO_JMP(X) == BitOr(0, BitAnd(X, 31))
APIO_SET_PINS(VALUE) == BitOr(57344, BitAnd(VALUE, 31))
APIO_SET_PIN_DIRS(VALUE) == BitOr(57472, BitAnd(VALUE, 31))
APIO_NOP == 41026


(***************************************************************************)
(* Inputs the builder calls are explored with.                             *)
(***************************************************************************)
BlockInputs == {0, 2}
SmInputs == {0, 3}
EmitWords == {APIO_SET_PIN_DIRS(1), APIO_ADD_DELAY(APIO_SET_PINS(1), 31)}
ExecctrlInputs == {ZERO32, Or32(APIO_EXECCTRL_JMP_PIN(21), Or32(APIO_STATUS_SEL_IRQ, APIO_STATUS_N(9)))}
MaskInputs == {1, 6}

(***************************************************************************)
(* State.                                                                  *)
(*                                                                         *)
(* hw:  the locals declared by APIO_ASM_INIT (apio.h 263-272) and the      *)
(*      peripheral's registers: sm_reg (apio_reg.h 36-43, 149-151),        *)
(*      instr_mem (apio.h 426-430) and ctrl (apio_reg.h 95-97).            *)
(* emu: _apio_emulated_pio_t (apio.h 109-132).                             *)
(* gh:  history of the session, read by the properties only.               *)
(***************************************************************************)
\* content of an object that was declared without an initialiser
Indeterminate == -1

DescZero == [b \in Blocks |-> [s \in SMs |-> 0]]

\* APIO_ASM_INIT, hardware build: fresh locals; the peripheral is untouched.
APIO_ASM_INIT_hw(c) ==
    [c EXCEPT !.instr_scratch = [i \in InstrIdx |-> Indeterminate],
              !.first_instr = DescZero,
              !.start = DescZero,
              !.wrap_bottom = DescZero,
              !.wrap_top = DescZero,
              !.end = DescZero,
              !.offset = [b \in Blocks |-> 0],
              !.blk = 0,
              !.sm = 0]

\* The FIFO storage of every state machine, all entries zero.
FifoZero ==
    [b \in Blocks |-> [s \in SMs |->
        [i \in 0 .. (APIO_MAX_FIFO_DEPTH - 1) |-> ZERO32]]]

\* (_apio_emulated_pio_t){0}
_apio_emulated_pio_t_zero ==
    [irq |-> [b \in Blocks |-> ZERO32],
     tx_fifos |-> FifoZero,
     tx_fifo_count |-> DescZero,
     rx_fifos |-> FifoZero,
     rx_fifo_count |-> DescZero,
     block_ended |-> [b \in Blocks |-> 0],
     gpio_base |-> [b \in Blocks |-> ZERO32],
     first_instr |-> DescZero,
     start |-> DescZero,
     end |-> DescZero,
     wrap_bottom |-> DescZero,
     wrap_top |-> DescZero,
     pio_sm_reg |-> [b \in Blocks |-> [s \in SMs |-> pio_sm_reg_t(ZERO32)]],
     instr |-> [b \in Blocks |-> [i \in InstrIdx |-> 0]],
     pre_instr |-> [b \in Blocks |-> [s \in SMs |->
                       [i \in 0 .. (MAX_PRE_INSTRS - 1) |-> 0]]],
     pre_instr_count |-> DescZero,
     offset |-> [b \in Blocks |-> 0],
     max_offset |-> [b \in Blocks |-> 0],
     enabled_sms |-> [b \in Blocks |-> 0],
     blk |-> 0,
     sm |-> 0,
     pios_enabled |-> 0]

\* faulty variant: the queue counts survive the reset
APIO_ASM_INIT_emu_keeps_counts(c) ==
    [_apio_emulated_pio_t_zero EXCEPT
        !.tx_fifo_count = IF "tx_fifo_count" \in DOMAIN c
                          THEN c.tx_fifo_count ELSE @,
        !.pios_enabled = c.pios_enabled]

\* APIO_ASM_INIT, emulated build: the whole shadow structure is zeroed,
\* pios_enabled is kept.
APIO_ASM_INIT_emu(c) ==
    [_apio_emulated_pio_t_zero EXCEPT !.pios_enabled = c.pios_enabled]

\* The peripheral as the hardware build finds it: registers and instruction
\* memory cleared, no state machine enabled.
HwPeripheral ==
    [sm_reg |-> [b \in Blocks |-> [s \in SMs |-> pio_sm_reg_t(ZERO32)]],
     instr_mem |-> [b \in Blocks |-> [i \in InstrIdx |-> ZERO32]],
     ctrl |-> [b \in Blocks |-> 0]]

HwFresh ==
    APIO_ASM_INIT_hw(
        [instr_scratch |-> <<>>, first_instr |-> <<>>, start |-> <<>>,
         wrap_bottom |-> <<>>, wrap_top |-> <<>>, end |-> <<>>,
         offset |-> <<>>, blk |-> 0, sm |-> 0,
         sm_reg |-> HwPeripheral.sm_reg,
         instr_mem |-> HwPeripheral.instr_mem,
         ctrl |-> HwPeripheral.ctrl])

\* APIO_ENABLE_PIOS() then APIO_ASM_INIT(), as in example/main.c.
EmuFresh == APIO_ASM_INIT_emu([pios_enabled |-> 1])

\* History of the session with n instructions already emitted to block 0.
\*   att         the last enable call written in the program: its arguments
\*               and whether each build compiled it
\*   label       the label declared last: its value on each build and the
\*               OFFSET it was declared with (-1: none declared yet)
\*   emitted[b]  the words emitted to block b, in order
\*   selected    APIO_SET_SM was called for the unit in this session
\*   marked      a wrap marker was called for the unit since its selection
\*   solo[b]     no other block was selected since b received its first word
\*   cur[b]      the unit last selected while b was the current block
\*   k_sel[b]    words emitted to b since cur[b] was selected
\*   k_end[b]    words emitted to b since end[b][cur[b]] was last recorded
\*   prev, kprev cur and k_end of the current block as the latest
\*               APIO_SET_SM found them
\*   oob         a store past the end of an instruction buffer has happened
\*   arg         the argument of the latest register call
\*   fields      the operands of the helpers that built the argument of the
\*               latest register call, one per field (<<>>: not recorded)
\*   at_set      the unit's wrap_bottom and wrap_top when APIO_SM_EXECCTRL_SET
\*               was last called for it (<<-1, -1>>: not called)
\*   after_set   a wrap marker or a selection of the unit followed that call
\*   order       the block of each word emitted in the session, in the order
\*               of the calls
\*   wiped       the fields of the emulated structure that were not zero
\*               when the latest APIO_ASM_INIT ran
\*   session     APIO_ASM_INIT calls so far
GhFresh(n) ==
    [nops |-> 0,
     op |-> "APIO_ASM_INIT",
     emitted |-> [b \in Blocks |-> IF b = 0 THEN [i \in 1 .. n |-> APIO_NOP]
                                   ELSE <<>>],
     selected |-> [b \in Blocks |-> [s \in SMs |-> FALSE]],
     marked |-> [b \in Blocks |-> [s \in SMs |-> FALSE]],
     solo |-> [b \in Blocks |-> TRUE],
     cur |-> [b \in Blocks |-> -1],
     k_sel |-> [b \in Blocks |-> 0],
     k_end |-> [b \in Blocks |-> 0],
     prev |-> -1,
     kprev |-> 0,
     oob |-> FALSE,
     arg |-> ZERO32,
     att |-> [block |-> 0, mask |-> 0, hw |-> FALSE, emu |-> FALSE],
     label |-> [hw |-> -1, emu |-> -1, offset |-> 0],
     wiped |-> {},
     fields |-> <<>>,
     at_set |-> [b \in Blocks |-> [s \in SMs |-> <<-1, -1>>]],
     after_set |-> [b \in Blocks |-> [s \in SMs |-> FALSE]],
     order |-> [i \in 1 .. n |-> 0],
     session |-> 1]

(***************************************************************************)
(* apio.h 309-350: selection and markers, the same text in both builds.    *)
(***************************************************************************)
APIO_SET_BLOCK(c, BLOCK) == [c EXCEPT !.blk = BLOCK]

\* faulty variant: the wrap top of the unit is not reset
APIO_SET_SM_keeps_wrap_top(c, SM) ==
    [c EXCEPT !.sm = SM,
              !.first_instr[c.blk][SM] = c.offset[c.blk],
              !.start[c.blk][SM] = c.offset[c.blk],
              !.wrap_bottom[c.blk][SM] = c.offset[c.blk],
              !.end[c.blk][SM] = c.offset[c.blk]]

\* faulty variant: the start offset of the unit is not reset
APIO_SET_SM_keeps_start(c, SM) ==
    [c EXCEPT !.sm = SM,
              !.first_instr[c.blk][SM] = c.offset[c.blk],
              !.wrap_bottom[c.blk][SM] = c.offset[c.blk],
              !.wrap_top[c.blk][SM] = c.offset[c.blk],
              !.end[c.blk][SM] = c.offset[c.blk]]

APIO_SET_SM(c, SM) ==
    [c EXCEPT !.sm = SM,
              !.first_instr[c.blk][SM] = c.offset[c.blk],
              !.start[c.blk][SM] = c.offset[c.blk],
              !.wrap_bottom[c.blk][SM] = c.offset[c.blk],
              !.wrap_top[c.blk][SM] = c.offset[c.blk],
              !.end[c.blk][SM] = c.offset[c.blk]]

\* apio.h 322-329: the value a new label is initialised with; the label is
\* a uint8_t local of the function that builds the program.
APIO_LABEL_NEW(c) == U8(c.offset[c.blk])

\* faulty variant: the sum is not narrowed to the label's 8 bits
APIO_LABEL_NEW_OFFSET_wide(c, OFFSET) == c.offset[c.blk] + OFFSET
APIO_LABEL_NEW_OFFSET(c, OFFSET) == U8(c.offset[c.blk] + OFFSET)

APIO_START(c) == [c EXCEPT !.start[c.blk][c.sm] = c.offset[c.blk]]

\* faulty variant: the end offset is the first instruction of the unit
APIO_END_as_first(c) == [c EXCEPT !.end[c.blk][c.sm] = c.first_instr[c.blk][c.sm]]

APIO_END(c) == [c EXCEPT !.end[c.blk][c.sm] = c.offset[c.blk]]

\* faulty variant: the cursor is recorded in the wrap top field
APIO_WRAP_BOTTOM_as_top(c) ==
    [c EXCEPT !.wrap_top[c.blk][c.sm] = c.offset[c.blk]]

APIO_WRAP_BOTTOM(c) ==
    [c EXCEPT !.wrap_bottom[c.blk][c.sm] = c.offset[c.blk]]

\* faulty variant: the end of the program is not recorded
APIO_WRAP_TOP_without_end(c) ==
    [c EXCEPT !.wrap_top[c.blk][c.sm] = c.offset[c.blk]]

\* faulty variant: the cursor is recorded in the wrap bottom field
APIO_WRAP_TOP_as_bottom(c) ==
    APIO_END([c EXCEPT !.wrap_bottom[c.blk][c.sm] = c.offset[c.blk]])

APIO_WRAP_TOP(c) ==
    APIO_END([c EXCEPT !.wrap_top[c.blk][c.sm] = c.offset[c.blk]])


(***************************************************************************)
(* apio.h 352-361: APIO_ADD_INSTR.  Neither build checks the cursor        *)
(* against APIO_MAX_PIO_INSTRS.  A store at index >= 32 is outside the     *)
(* array; `ub' chooses among the outcomes a build can produce:             *)
(*   "none"  the store hits nothing the builder reads again;               *)
(*   "flat"  the store lands where the index points in the flat layout:    *)
(*           hardware build, the object declared next (__pio_first_instr,  *)
(*           little-endian bytes); emulated build, the next row of instr   *)
(*           or, past the last row, pre_instr.                             *)
(* The cursor is a uint8_t and is incremented in either case.              *)
(***************************************************************************)
UBOutcomes == {"none", "flat"}

APIO_ADD_INSTR_hw(c, INST, ub) ==
    LET i == c.offset[c.blk]
        j == 2 * (i - APIO_MAX_PIO_INSTRS)
        n == APIO_MAX_SMS_PER_BLOCK
        adv == [c EXCEPT !.offset[c.blk] = U8(i + 1)]
    IN  IF i < APIO_MAX_PIO_INSTRS
        THEN [adv EXCEPT !.instr_scratch[i] = U16(INST)]
        ELSE IF ub = "flat" /\ j + 1 < APIO_MAX_PIO_BLOCKS * n
        THEN [adv EXCEPT !.first_instr[j \div n][j % n] = U16(INST) % 256,
                         !.first_instr[(j + 1) \div n][(j + 1) % n] =
                             U16(INST) \div 256]
        ELSE adv

\* faulty variant: the cursor is advanced before the store
APIO_ADD_INSTR_emu_preinc(c, INST, ub) ==
    LET i == U8(c.offset[c.blk] + 1)
        adv == [c EXCEPT !.offset[c.blk] = i]
    IN  IF i < APIO_MAX_PIO_INSTRS
        THEN [adv EXCEPT !.instr[c.blk][i] = U16(INST)]
        ELSE adv

APIO_ADD_INSTR_emu(c, INST, ub) ==
    LET i == c.offset[c.blk]
        j == i - APIO_MAX_PIO_INSTRS
        adv == [c EXCEPT !.offset[c.blk] = U8(i + 1)]
    IN  IF i < APIO_MAX_PIO_INSTRS
        THEN [adv EXCEPT !.instr[c.blk][i] = U16(INST)]
        ELSE IF ub = "flat" /\ c.blk + 1 < APIO_MAX_PIO_BLOCKS
                /\ j < APIO_MAX_PIO_INSTRS
        THEN [adv EXCEPT !.instr[c.blk + 1][j] = U16(INST)]
        ELSE IF ub = "flat" /\ c.blk + 1 = APIO_MAX_PIO_BLOCKS
                /\ j < MAX_PRE_INSTRS
        THEN [adv EXCEPT !.pre_instr[0][0][j] = U16(INST)]
        ELSE adv

(***************************************************************************)
(* apio.h 363-383: register images of the current unit.                    *)
(***************************************************************************)
_apio_sm_reg_ptr(block, sm) ==
    IF block = 0 THEN <<0, sm>>
    ELSE IF block = 1 THEN <<1, sm>>
    ELSE <<2, sm>>

\* faulty variant: the register of unit 0 is written whatever the unit is
SmRegStore_hw_unit_zero(c, f, v) ==
    LET p == _apio_sm_reg_ptr(c.blk, 0)
    IN  [c EXCEPT !.sm_reg[p[1]][p[2]][f] = v]

\* hardware build: APIOn_SM_REG(sm) is block n's register bank
SmRegStore_hw(c, f, v) ==
    LET p == _apio_sm_reg_ptr(c.blk, c.sm)
    IN  [c EXCEPT !.sm_reg[p[1]][p[2]][f] = v]

\* emulated build: APIOn_SM_REG(SM) is &pio_sm_reg[__blk][SM] for every n
SmRegStore_emu(c, f, v) == [c EXCEPT !.pio_sm_reg[c.blk][c.sm][f] = v]

\* faulty variant: the wrap top is left out of the register
ExecctrlImage_without_top(c, EXECCTRL) ==
    Or32(EXECCTRL, APIO_WRAP_BOTTOM_AS_REG(c.wrap_bottom[c.blk][c.sm]))

ExecctrlImage(c, EXECCTRL) ==
    Or32(Or32(EXECCTRL, APIO_WRAP_BOTTOM_AS_REG(c.wrap_bottom[c.blk][c.sm])),
         APIO_WRAP_TOP_AS_REG(c.wrap_top[c.blk][c.sm]))

APIO_SM_CLKDIV_SET_hw(c, INT, FRAC) ==
    SmRegStore_hw(c, "clkdiv", APIO_CLKDIV(INT, FRAC))
APIO_SM_CLKDIV_SET_emu(c, INT, FRAC) ==
    SmRegStore_emu(c, "clkdiv", APIO_CLKDIV(INT, FRAC))

APIO_SM_EXECCTRL_SET_hw(c, EXECCTRL) ==
    SmRegStore_hw(c, "execctrl", ExecctrlImage(c, EXECCTRL))
APIO_SM_EXECCTRL_SET_emu(c, EXECCTRL) ==
    SmRegStore_emu(c, "execctrl", ExecctrlImage(c, EXECCTRL))

APIO_SM_SHIFTCTRL_SET_hw(c, SHIFTCTRL) == SmRegStore_hw(c, "shiftctrl", SHIFTCTRL)
APIO_SM_SHIFTCTRL_SET_emu(c, SHIFTCTRL) == SmRegStore_emu(c, "shiftctrl", SHIFTCTRL)

APIO_SM_PINCTRL_SET_hw(c, PINCTRL) == SmRegStore_hw(c, "pinctrl", PINCTRL)
APIO_SM_PINCTRL_SET_emu(c, PINCTRL) == SmRegStore_emu(c, "pinctrl", PINCTRL)

(***************************************************************************)
(* apio.h 385-391, 420-423: execute an instruction immediately.            *)
(***************************************************************************)
APIO_SM_EXEC_INSTR_hw(c, INSTR) == SmRegStore_hw(c, "instr", U32(INSTR))

APIO_SM_EXEC_INSTR_emu(c, INSTR) ==
    LET n == c.pre_instr_count[c.blk][c.sm]
    IN  [c EXCEPT !.pre_instr[c.blk][c.sm][n] = U16(INSTR),
                  !.pre_instr_count[c.blk][c.sm] = U8(n + 1)]

APIO_SM_JMP_TO_START_hw(c) ==
    APIO_SM_EXEC_INSTR_hw(c, APIO_JMP(c.start[c.blk][c.sm]))
APIO_SM_JMP_TO_START_emu(c) ==
    APIO_SM_EXEC_INSTR_emu(c, APIO_JMP(c.start[c.blk][c.sm]))

(***************************************************************************)
(* apio.h 425-445: APIO_END_BLOCK.                                         *)
(* Hardware build: words 0 .. cursor-1 of the scratch buffer are copied to *)
(* the block's instruction memory.  Instruction memory is 32 words at      *)
(* offset 0x48 and the state machine registers follow it at 0xC8           *)
(* (apio_reg.h 88-89), so ptr[32 + j] is word j of the register banks; it  *)
(* is stored from a scratch element outside the array, whose value `junk'  *)
(* is indeterminate.  addr is read only.                                   *)
(***************************************************************************)
_apio_instr_mem_ptr(block) ==
    IF block = 0 THEN 0 ELSE IF block = 1 THEN 1 ELSE 2

RegWord(f) ==
    CASE f = "clkdiv" -> 0
      [] f = "execctrl" -> 1
      [] f = "shiftctrl" -> 2
      [] f = "addr" -> 3
      [] f = "instr" -> 4
      [] f = "pinctrl" -> 5

JunkWords == {0, 65535}

ScratchRead(c, i, junk) ==
    IF i >= APIO_MAX_PIO_INSTRS \/ c.instr_scratch[i] = Indeterminate
    THEN junk
    ELSE c.instr_scratch[i]

\* faulty variant: the copy starts at index 1
APIO_END_BLOCK_hw_from_one(c, junk) ==
    LET b == _apio_instr_mem_ptr(c.blk)
        n == c.offset[c.blk]
    IN  [c EXCEPT
           !.instr_mem[b] =
               [i \in InstrIdx |->
                   IF 0 < i /\ i < n THEN U32(ScratchRead(c, i, junk))
                   ELSE @[i]]]

\* faulty variant: the word at the cursor is copied as well
APIO_END_BLOCK_hw_inclusive(c, junk) ==
    LET b == _apio_instr_mem_ptr(c.blk)
        n == c.offset[c.blk]
    IN  [c EXCEPT
           !.instr_mem[b] =
               [i \in InstrIdx |->
                   IF i <= n THEN U32(ScratchRead(c, i, junk)) ELSE @[i]]]

APIO_END_BLOCK_hw(c, junk) ==
    LET b == _apio_instr_mem_ptr(c.blk)
        n == c.offset[c.blk]
    IN  [c EXCEPT
           !.instr_mem[b] =
               [i \in InstrIdx |->
                   IF i < n THEN U32(ScratchRead(c, i, junk)) ELSE @[i]],
           !.sm_reg[b] =
               IF n <= APIO_MAX_PIO_INSTRS THEN @
               ELSE [s \in SMs |->
                       [f \in DOMAIN @[s] |->
                           IF APIO_MAX_PIO_INSTRS + 6 * s + RegWord(f) < n
                              /\ f # "addr"
                           THEN U32(junk)
                           ELSE @[s][f]]]]

APIO_END_BLOCK_emu(c) == [c EXCEPT !.max_offset[c.blk] = c.offset[c.blk]]

(***************************************************************************)
(* apio.h 294-307, 447-464: enabling state machines.  The _Static_asserts  *)
(* reject a call when the build is compiled; a rejected call is no step.   *)
(***************************************************************************)
_STATIC_BLOCK_ASSERT(BLOCK) == BLOCK >= 0 /\ BLOCK < APIO_MAX_PIO_BLOCKS

APIO_ENABLE_SMS_ok_hw(BLOCK, SMS_MASK) ==
    /\ _STATIC_BLOCK_ASSERT(BLOCK)
    /\ SMS_MASK > 0 /\ SMS_MASK < Shl(1, APIO_MAX_SMS_PER_BLOCK)
APIO_ENABLE_SMS_ok_emu(BLOCK, SMS_MASK) == TRUE

APIO_ENABLE_SMS_hw(c, BLOCK, SMS_MASK) ==
    [c EXCEPT !.ctrl[IF BLOCK = 0 THEN 0 ELSE IF BLOCK = 1 THEN 1 ELSE 2] =
                  APIO_CTRL_SM_ENABLE(SMS_MASK)]
APIO_ENABLE_SMS_emu(c, BLOCK, SMS_MASK) ==
    [c EXCEPT !.enabled_sms[BLOCK] = U8(SMS_MASK)]

\* The emulated APIO_ENABLE_SMS with any BLOCK: the store is unchecked.  With
\* BLOCK = 3 it is outside enabled_sms; in the flat layout of the structure
\* the byte after enabled_sms[2] is block.
APIO_ENABLE_SMS_emu_any(c, BLOCK, SMS_MASK, ub) ==
    IF BLOCK \in Blocks THEN APIO_ENABLE_SMS_emu(c, BLOCK, SMS_MASK)
    ELSE IF ub = "flat" /\ BLOCK = APIO_MAX_PIO_BLOCKS
         THEN [c EXCEPT !.blk = U8(SMS_MASK)]
         ELSE c

APIO_ENABLE_SM_ok(BLOCK, SM_MASK) ==
    _STATIC_BLOCK_ASSERT(BLOCK) /\ SM_MASK < 15

APIO_ENABLE_SM_hw(c, BLOCK, SM_MASK) ==
    [c EXCEPT !.ctrl[IF BLOCK = 0 THEN 0 ELSE IF BLOCK = 1 THEN 1 ELSE 2] =
                  APIO_CTRL_SM_ENABLE(SM_MASK)]
\* faulty variant: the mask replaces the units enabled before
APIO_ENABLE_SM_emu_overwrites(c, BLOCK, SM_MASK) ==
    [c EXCEPT !.enabled_sms[BLOCK] = U8(SM_MASK)]

APIO_ENABLE_SM_emu(c, BLOCK, SM_MASK) ==
    [c EXCEPT !.enabled_sms[BLOCK] = U8(BitOr(@, SM_MASK))]


(***************************************************************************)
(* apio.h 488-748: the instruction macros, as <<name, opcode bits, operand *)
(* mask>>: NAME(X) is (opcode | ((X) & mask)); a macro without an operand  *)
(* has mask 0.                                                             *)
(***************************************************************************)
InstrMacros == {
    <<"APIO_IN_PINS", 16384, 31>>,
    <<"APIO_IN_X", 16416, 31>>,
    <<"APIO_IN_Y", 16448, 31>>,
    <<"APIO_IN_NULL", 16480, 31>>,
    <<"APIO_IN_ISR", 16576, 31>>,
    <<"APIO_IN_OSR", 16608, 31>>,
    <<"APIO_IRQ_CLEAR", 49216, 7>>,
    <<"APIO_IRQ_CLEAR_PREV", 49224, 7>>,
    <<"APIO_IRQ_CLEAR_NEXT", 49240, 7>>,
    <<"APIO_IRQ_CLEAR_REL", 49232, 7>>,
    <<"APIO_IRQ_SET", 49152, 7>>,
    <<"APIO_IRQ_SET_PREV", 49160, 7>>,
    <<"APIO_IRQ_SET_NEXT", 49176, 7>>,
    <<"APIO_IRQ_SET_REL", 49168, 7>>,
    <<"APIO_IRQ_SET_WAIT", 49184, 7>>,
    <<"APIO_IRQ_SET_WAIT_PREV", 49192, 7>>,
    <<"APIO_IRQ_SET_WAIT_NEXT", 49208, 7>>,
    <<"APIO_IRQ_SET_WAIT_REL", 49200, 7>>,
    <<"APIO_JMP", 0, 31>>,
    <<"APIO_JMP_NOT_X", 32, 31>>,
    <<"APIO_JMP_X_DEC", 64, 31>>,
    <<"APIO_JMP_NOT_Y", 96, 31>>,
    <<"APIO_JMP_Y_DEC", 128, 31>>,
    <<"APIO_JMP_X_NOT_Y", 160, 31>>,
    <<"APIO_JMP_PIN", 192, 31>>,
    <<"APIO_JMP_NOT_OSRE", 224, 31>>,
    <<"APIO_MOV_PINS_PINS", 40960, 0>>,
    <<"APIO_MOV_PINS_X", 40961, 0>>,
    <<"APIO_MOV_PINS_Y", 40962, 0>>,
    <<"APIO_MOV_PINS_NULL", 40963, 0>>,
    <<"APIO_MOV_PINS_ISR", 40966, 0>>,
    <<"APIO_MOV_PINS_OSR", 40967, 0>>,
    <<"APIO_MOV_X_PINS", 40992, 0>>,
    <<"APIO_MOV_X_X", 40993, 0>>,
    <<"APIO_MOV_X_Y", 40994, 0>>,
    <<"APIO_MOV_X_NULL", 40995, 0>>,
    <<"APIO_MOV_X_ISR", 40998, 0>>,
    <<"APIO_MOV_X_OSR", 40999, 0>>,
    <<"APIO_MOV_Y_PINS", 41024, 0>>,
    <<"APIO_MOV_Y_X", 41025, 0>>,
    <<"APIO_MOV_Y_Y", 41026, 0>>,
    <<"APIO_MOV_Y_NULL", 41027, 0>>,
    <<"APIO_MOV_Y_ISR", 41030, 0>>,
    <<"APIO_MOV_Y_OSR", 41031, 0>>,
    <<"APIO_MOV_PINDIRS_PINS", 41056, 0>>,
    <<"APIO_MOV_PINDIRS_X", 41057, 0>>,
    <<"APIO_MOV_PINDIRS_Y", 41058, 0>>,
    <<"APIO_MOV_PINDIRS_NULL", 41059, 0>>,
    <<"APIO_MOV_PINDIRS_ISR", 41062, 0>>,
    <<"APIO_MOV_PINDIRS_OSR", 41063, 0>>,
    <<"APIO_MOV_PINDIRS_NOT_NULL", 41067, 0>>,
    <<"APIO_MOV_EXEC_PINS", 41088, 0>>,
    <<"APIO_MOV_EXEC_X", 41089, 0>>,
    <<"APIO_MOV_EXEC_Y", 41090, 0>>,
    <<"APIO_MOV_EXEC_NULL", 41091, 0>>,
    <<"APIO_MOV_EXEC_ISR", 41094, 0>>,
    <<"APIO_MOV_EXEC_OSR", 41095, 0>>,
    <<"APIO_MOV_PC_PINS", 41120, 0>>,
    <<"APIO_MOV_PC_X", 41121, 0>>,
    <<"APIO_MOV_PC_Y", 41122, 0>>,
    <<"APIO_MOV_PC_NULL", 41123, 0>>,
    <<"APIO_MOV_PC_ISR", 41126, 0>>,
    <<"APIO_MOV_PC_OSR", 41127, 0>>,
    <<"APIO_MOV_ISR_PINS", 41152, 0>>,
    <<"APIO_MOV_ISR_X", 41153, 0>>,
    <<"APIO_MOV_ISR_Y", 41154, 0>>,
    <<"APIO_MOV_ISR_NULL", 41155, 0>>,
    <<"APIO_MOV_ISR_ISR", 41158, 0>>,
    <<"APIO_MOV_ISR_OSR", 41159, 0>>,
    <<"APIO_MOV_OSR_PINS", 41184, 0>>,
    <<"APIO_MOV_OSR_X", 41185, 0>>,
    <<"APIO_MOV_OSR_Y", 41186, 0>>,
    <<"APIO_MOV_OSR_NULL", 41187, 0>>,
    <<"APIO_MOV_OSR_ISR", 41190, 0>>,
    <<"APIO_MOV_OSR_OSR", 41191, 0>>,
    <<"APIO_NOP", 41026, 0>>,
    <<"APIO_OUT_PINS", 24576, 31>>,
    <<"APIO_OUT_X", 24608, 31>>,
    <<"APIO_OUT_Y", 24640, 31>>,
    <<"APIO_OUT_NULL", 24672, 31>>,
    <<"APIO_OUT_PINDIRS", 24704, 31>>,
    <<"APIO_OUT_PC", 24736, 31>>,
    <<"APIO_OUT_ISR", 24768, 31>>,
    <<"APIO_OUT_EXEC", 24800, 31>>,
    <<"APIO_PULL_BLOCK", 32928, 0>>,
    <<"APIO_PULL_NOBLOCK", 32896, 0>>,
    <<"APIO_PULL_IFEMPTY_BLOCK", 32992, 0>>,
    <<"APIO_PULL_IFEMPTY_NOBLOCK", 32960, 0>>,
    <<"APIO_PUSH_BLOCK", 32800, 0>>,
    <<"APIO_PUSH_NOBLOCK", 32768, 0>>,
    <<"APIO_PUSH_IFFULL_BLOCK", 32864, 0>>,
    <<"APIO_PUSH_IFFULL_NOBLOCK", 32832, 0>>,
    <<"APIO_SET_PINS", 57344, 31>>,
    <<"APIO_SET_X", 57376, 31>>,
    <<"APIO_SET_Y", 57408, 31>>,
    <<"APIO_SET_PIN_DIRS", 57472, 31>>,
    <<"APIO_WAIT_GPIO_HIGH", 8320, 31>>,
    <<"APIO_WAIT_GPIO_LOW", 8192, 31>>,
    <<"APIO_WAIT_PIN_HIGH", 8352, 31>>,
    <<"APIO_WAIT_PIN_LOW", 8224, 31>>,
    <<"APIO_WAIT_JMP_PIN_HIGH", 8416, 0>>,
    <<"APIO_WAIT_JMP_PIN_LOW", 8288, 0>>,
    <<"APIO_WAIT_IRQ_HIGH", 8384, 7>>,
    <<"APIO_WAIT_IRQ_HIGH_PREV", 8392, 7>>,
    <<"APIO_WAIT_IRQ_HIGH_NEXT", 8408, 7>>,
    <<"APIO_WAIT_IRQ_HIGH_REL", 8400, 7>>,
    <<"APIO_WAIT_IRQ_LOW", 8256, 7>>,
    <<"APIO_WAIT_IRQ_LOW_PREV", 8264, 7>>,
    <<"APIO_WAIT_IRQ_LOW_NEXT", 8280, 7>>,
    <<"APIO_WAIT_IRQ_LOW_REL", 8272, 7>>
}

\* faulty variant: the operand is not masked
MacroWord_unmasked(m, X) == BitOr(m[2], X)
MacroWord(m, X) == BitOr(m[2], BitAnd(X, m[3]))

APIO_MOV_SRC_INVERT(INST) == BitOr(INST, Shl(1, 3))
APIO_MOV_SRC_REVERSE(INST) == BitOr(INST, Shl(2, 3))

(***************************************************************************)
(* apio_dis.h 103-205: operand names.                                      *)
(***************************************************************************)
piorom_get_jmp_condition(cond) ==
    CASE cond = 0 -> ""
      [] cond = 1 -> "!x"
      [] cond = 2 -> "x--"
      [] cond = 3 -> "!y"
      [] cond = 4 -> "y--"
      [] cond = 5 -> "x!=y"
      [] cond = 6 -> "pin"
      [] cond = 7 -> "!osre"
      [] OTHER -> "???"

piorom_get_wait_source(src) ==
    CASE src = 0 -> "gpio"
      [] src = 1 -> "pin"
      [] src = 2 -> "irq"
      [] src = 3 -> "jmppin"
      [] OTHER -> "???"

piorom_get_in_source(src) ==
    CASE src = 0 -> "pins"
      [] src = 1 -> "x"
      [] src = 2 -> "y"
      [] src = 3 -> "null"
      [] src = 4 -> "reserved"
      [] src = 5 -> "reserved"
      [] src = 6 -> "isr"
      [] src = 7 -> "osr"
      [] OTHER -> "???"

piorom_get_out_dest(dest) ==
    CASE dest = 0 -> "pins"
      [] dest = 1 -> "x"
      [] dest = 2 -> "y"
      [] dest = 3 -> "null"
      [] dest = 4 -> "pindirs"
      [] dest = 5 -> "pc"
      [] dest = 6 -> "isr"
      [] dest = 7 -> "exec"
      [] OTHER -> "???"

piorom_get_mov_dest(dest) ==
    CASE dest = 0 -> "pins"
      [] dest = 1 -> "x"
      [] dest = 2 -> "y"
      [] dest = 3 -> "pindirs"
      [] dest = 4 -> "exec"
      [] dest = 5 -> "pc"
      [] dest = 6 -> "isr"
      [] dest = 7 -> "osr"
      [] OTHER -> "???"

piorom_get_mov_op(op) ==
    CASE op = 0 -> ""
      [] op = 1 -> "~"
      [] op = 2 -> "::"
      [] op = 3 -> "reserved"
      [] OTHER -> "???"

piorom_get_mov_source(src) ==
    CASE src = 0 -> "pins"
      [] src = 1 -> "x"
      [] src = 2 -> "y"
      [] src = 3 -> "null"
      [] src = 4 -> "reserved"
      [] src = 5 -> "status"
      [] src = 6 -> "isr"
      [] src = 7 -> "osr"
      [] OTHER -> "???"

\* faulty variant: the undefined destinations have no entry
piorom_get_set_dest_no_reserved(dest) ==
    CASE dest = 0 -> "pins"
      [] dest = 1 -> "x"
      [] dest = 2 -> "y"
      [] dest = 4 -> "pindirs"
      [] OTHER -> ""

piorom_get_set_dest(dest) ==
    CASE dest = 0 -> "pins"
      [] dest = 1 -> "x"
      [] dest = 2 -> "y"
      [] dest = 3 -> "reserved"
      [] dest = 4 -> "pindirs"
      [] dest = 5 -> "reserved"
      [] dest = 6 -> "reserved"
      [] dest = 7 -> "reserved"
      [] OTHER -> "???"

(***************************************************************************)
(* apio_dis.h 207-245: the output text.  dest is the text written so far.  *)
(***************************************************************************)
append_str(dest, src) == dest \o src

append_char(dest, c) == dest \o c

\* '0' + d
DigitChar(d) == SubSeq("0123456789", d + 1, d + 1)

\* val / 10 and val % 10 of a uint32_t
Div10(val) == <<val[1] \div 10, ((val[1] % 10) * 65536 + val[2]) \div 10>>
Mod10(val) == ((val[1] % 10) * 65536 + val[2]) % 10

\* the first loop of append_uint: temp[0 .. i-1], least significant first
RECURSIVE TempDigits(_)
TempDigits(val) ==
    IF val = ZERO32 THEN <<>>
    ELSE <<DigitChar(Mod10(val))>> \o TempDigits(Div10(val))

\* the second loop of append_uint: temp[i-1] down to temp[0]
RECURSIVE AppendTemp(_, _, _)
AppendTemp(dest, temp, i) ==
    IF i > 0 THEN AppendTemp(dest \o temp[i], temp, i - 1) ELSE dest

append_uint(dest, val) ==
    IF val = ZERO32 THEN dest \o "0"
    ELSE LET temp == TempDigits(val)
         IN  AppendTemp(dest, temp, Len(temp))

append_delay(dest, delay) ==
    IF delay > 0
    THEN append_char(append_uint(append_str(dest, " ["), U32(delay)), "]")
    ELSE dest

(***************************************************************************)
(* apio_dis.h 255-463: apio_instruction_decoder.  The result is the text   *)
(* left in out_str.                                                        *)
(***************************************************************************)
DecodeJmp(instr, start_offset, delay) ==
    LET condition == BitAnd(Shr(instr, 5), 7)
        address == BitAnd(instr, 31)
        p1 == append_str("", "jmp ")
        p2 == IF condition # 0
              THEN append_str(append_str(p1, piorom_get_jmp_condition(condition)), ", ")
              ELSE p1
        p3 == append_uint(p2, U32(address - start_offset))
    IN  append_delay(p3, delay)

DecodeWait(instr, delay) ==
    LET pol == BitAnd(Shr(instr, 7), 1)
        source == BitAnd(Shr(instr, 5), 3)
        idx_mode == BitAnd(Shr(instr, 3), 3)
        p1 == append_str("", "wait ")
        p2 == append_uint(p1, U32(pol))
        p3 == append_char(p2, " ")
        p4 == append_str(p3, piorom_get_wait_source(source))
        index == IF source = 2 THEN BitAnd(instr, 7) ELSE BitAnd(instr, 31)
        p5 == IF source = 2 /\ idx_mode = 1 THEN append_str(p4, " prev")
              ELSE IF source = 2 /\ idx_mode = 3 THEN append_str(p4, " next")
              ELSE p4
        p6 == append_str(p5, " ")
        p7 == append_uint(p6, U32(index))
    IN  append_delay(p7, delay)

DecodeIn(instr, delay) ==
    LET source == BitAnd(Shr(instr, 5), 7)
        bitcount == BitAnd(instr, 31)
        p1 == append_str("", "in ")
        p2 == append_str(p1, piorom_get_in_source(source))
        p3 == append_str(p2, ", ")
        p4 == append_uint(p3, U32(bitcount))
    IN  append_delay(p4, delay)

DecodeOut(instr, delay) ==
    LET dest == BitAnd(Shr(instr, 5), 7)
        bitcount == BitAnd(instr, 31)
        p1 == append_str("", "out ")
        p2 == append_str(p1, piorom_get_out_dest(dest))
        p3 == append_str(p2, ", ")
        p4 == append_uint(p3, U32(bitcount))
    IN  append_delay(p4, delay)

\* faulty variant: the sense of the block bit is inverted
DecodePushPullMov_block_inverted(instr, delay) ==
    LET bit7 == BitAnd(Shr(instr, 7), 1)
        bit4 == BitAnd(Shr(instr, 4), 1)
        if_flag == BitAnd(Shr(instr, 6), 1)
        block == BitAnd(Shr(instr, 5), 1)
        idx_i == BitAnd(Shr(instr, 3), 1)
        index == BitAnd(instr, 3)
        blocking == IF block # 0 THEN "noblock" ELSE "block"
        p == IF bit4 = 0
             THEN IF bit7 = 0
                  THEN append_str(
                           IF if_flag # 0
                           THEN append_str(append_str("", "push"), " iffull ")
                           ELSE append_char(append_str("", "push"), " "),
                           blocking)
                  ELSE append_str(
                           IF if_flag # 0
                           THEN append_str(append_str("", "pull"), " ifempty ")
                           ELSE append_char(append_str("", "pull"), " "),
                           blocking)
             ELSE IF bit7 = 0
                  THEN append_str(
                           IF idx_i # 0
                           THEN append_uint(append_str("", "mov rxfifo["), U32(index))
                           ELSE append_char(append_str("", "mov rxfifo["), "y"),
                           "], isr")
                  ELSE append_str(
                           IF idx_i # 0
                           THEN append_uint(append_str("", "mov txfifo["), U32(index))
                           ELSE append_char(append_str("", "mov txfifo["), "y"),
                           "], osr")
    IN  append_delay(p, delay)

DecodePushPullMov(instr, delay) ==
    LET bit7 == BitAnd(Shr(instr, 7), 1)
        bit4 == BitAnd(Shr(instr, 4), 1)
        if_flag == BitAnd(Shr(instr, 6), 1)
        block == BitAnd(Shr(instr, 5), 1)
        idx_i == BitAnd(Shr(instr, 3), 1)
        index == BitAnd(instr, 3)
        blocking == IF block # 0 THEN "block" ELSE "noblock"
        p == IF bit4 = 0
             THEN IF bit7 = 0
                  THEN append_str(
                           IF if_flag # 0
                           THEN append_str(append_str("", "push"), " iffull ")
                           ELSE append_char(append_str("", "push"), " "),
                           blocking)
                  ELSE append_str(
                           IF if_flag # 0
                           THEN append_str(append_str("", "pull"), " ifempty ")
                           ELSE append_char(append_str("", "pull"), " "),
                           blocking)
             ELSE IF bit7 = 0
                  THEN append_str(
                           IF idx_i # 0
                           THEN append_uint(append_str("", "mov rxfifo["), U32(index))
                           ELSE append_char(append_str("", "mov rxfifo["), "y"),
                           "], isr")
                  ELSE append_str(
                           IF idx_i # 0
                           THEN append_uint(append_str("", "mov txfifo["), U32(index))
                           ELSE append_char(append_str("", "mov txfifo["), "y"),
                           "], osr")
    IN  append_delay(p, delay)

\* faulty variant: mov y, y is not given its own mnemonic
DecodeMov_no_nop(instr, delay) ==
    LET dest == BitAnd(Shr(instr, 5), 7)
        op == BitAnd(Shr(instr, 3), 3)
        source == BitAnd(instr, 7)
        p == append_str(
                 append_str(
                     append_str(
                         append_str(append_str("", "mov "),
                                    piorom_get_mov_dest(dest)),
                         ", "),
                     piorom_get_mov_op(op)),
                 piorom_get_mov_source(source))
    IN  append_delay(p, delay)

DecodeMov(instr, delay) ==
    LET dest == BitAnd(Shr(instr, 5), 7)
        op == BitAnd(Shr(instr, 3), 3)
        source == BitAnd(instr, 7)
        p == IF dest = 2 /\ op = 0 /\ source = 2
             THEN append_str("", "nop")
             ELSE append_str(
                      append_str(
                          append_str(
                              append_str(append_str("", "mov "),
                                         piorom_get_mov_dest(dest)),
                              ", "),
                          piorom_get_mov_op(op)),
                      piorom_get_mov_source(source))
    IN  append_delay(p, delay)

DecodeIrq(instr, delay) ==
    LET clr == BitAnd(Shr(instr, 6), 1)
        wait == BitAnd(Shr(instr, 5), 1)
        idx_mode == BitAnd(Shr(instr, 3), 3)
        index == BitAnd(instr, 7)
        p1 == append_str("", "irq ")
        p2 == IF idx_mode = 1 THEN append_str(p1, "prev ")
              ELSE IF idx_mode = 3 THEN append_str(p1, "next ")
              ELSE p1
        p3 == IF clr # 0 THEN append_str(p2, "clear ")
              ELSE IF wait # 0 THEN append_str(p2, "wait ")
              ELSE p2
        p4 == append_uint(p3, U32(index))
        p5 == IF idx_mode = 2 THEN append_str(p4, " rel") ELSE p4
    IN  append_delay(p5, delay)

DecodeSet(instr, delay) ==
    LET dest == BitAnd(Shr(instr, 5), 7)
        data == BitAnd(instr, 31)
        p1 == append_str("", "set ")
        p2 == append_str(p1, piorom_get_set_dest(dest))
        p3 == append_str(p2, ", ")
        p4 == append_uint(p3, U32(data))
    IN  append_delay(p4, delay)

apio_instruction_decoder(instr, start_offset) ==
    LET opcode == BitAnd(Shr(instr, 13), 7)
        delay == BitAnd(Shr(instr, 8), 31)
    IN  CASE opcode = 0 -> DecodeJmp(instr, start_offset, delay)
          [] opcode = 1 -> DecodeWait(instr, delay)
          [] opcode = 2 -> DecodeIn(instr, delay)
          [] opcode = 3 -> DecodeOut(instr, delay)
          [] opcode = 4 -> DecodePushPullMov(instr, delay)
          [] opcode = 5 -> DecodeMov(instr, delay)
          [] opcode = 6 -> DecodeIrq(instr, delay)
          [] opcode = 7 -> DecodeSet(instr, delay)

(***************************************************************************)
(* The disassembler's working state: the arguments of one call of          *)
(* apio_instruction_decoder, the text it left in out_str, and how the word *)
(* was built (macro m with operand x, source modifier mod, delay d; built  *)
(* is FALSE while the macros have not been expanded yet).  It              *)
(* also holds what is fixed outside the builder's variables: script, the   *)
(* calls the enclosing function makes in order when it is a fixed program  *)
(* (empty when the calls are free), and log, the APIO_LOG calls made by    *)
(* the last apio_log_sm on each build.                                     *)
(***************************************************************************)
DisIdle ==
    [instr |-> 0, start_offset |-> 0, out_str |-> "", decoded |-> FALSE,
     m |-> <<"", 0, 0>>, x |-> 0, mod |-> "", d |-> 0, built |-> TRUE,
     script |-> <<>>, log |-> [hw |-> <<>>, emu |-> <<>>]]

(***************************************************************************)
(* Builder calls.  Each runs the macro's expansion on both builds and      *)
(* extends the history.                                                    *)
(***************************************************************************)
\* A free session makes at most MaxOps calls; a fixed program makes its own.
Budget == gh.nops < (IF dis.script = <<>> THEN MaxOps ELSE Len(dis.script))

Tick(name) == [gh EXCEPT !.nops = @ + 1, !.op = name]

Call_ASM_INIT ==
    /\ Budget
    /\ hw' = APIO_ASM_INIT_hw(hw)
    /\ emu' = APIO_ASM_INIT_emu(emu)
    /\ gh' = [GhFresh(0) EXCEPT
                !.nops = gh.nops + 1,
                !.wiped = {f \in DOMAIN emu : emu[f] # EmuFresh[f]},
                !.session = gh.session + 1]
    /\ UNCHANGED dis

Call_SET_BLOCK(BLOCK) ==
    /\ Budget
    /\ _STATIC_BLOCK_ASSERT(BLOCK)
    /\ hw' = APIO_SET_BLOCK(hw, BLOCK)
    /\ emu' = APIO_SET_BLOCK(emu, BLOCK)
    /\ gh' = [Tick("APIO_SET_BLOCK") EXCEPT
                 !.solo = [x \in Blocks |->
                              @[x] /\ (x = BLOCK \/ gh.emitted[x] = <<>>)]]
    /\ UNCHANGED dis

Call_SET_SM(SM) ==
    /\ Budget
    /\ SM >= 0 /\ SM < APIO_MAX_SMS_PER_BLOCK
    /\ hw' = APIO_SET_SM(hw, SM)
    /\ emu' = APIO_SET_SM(emu, SM)
    /\ gh' = [Tick("APIO_SET_SM") EXCEPT
                 !.selected[hw.blk][SM] = TRUE,
                 !.marked[hw.blk][SM] = FALSE,
                 !.after_set[hw.blk][SM] = (gh.at_set[hw.blk][SM] # <<-1, -1>>),
                 !.prev = gh.cur[hw.blk],
                 !.kprev = gh.k_end[hw.blk],
                 !.cur[hw.blk] = SM,
                 !.k_sel[hw.blk] = 0,
                 !.k_end[hw.blk] = 0]
    /\ UNCHANGED dis

Call_START ==
    /\ Budget
    /\ hw' = APIO_START(hw)
    /\ emu' = APIO_START(emu)
    /\ gh' = Tick("APIO_START")
    /\ UNCHANGED dis

Call_END ==
    /\ Budget
    /\ hw' = APIO_END(hw)
    /\ emu' = APIO_END(emu)
    /\ gh' = [Tick("APIO_END") EXCEPT
                 !.k_end[hw.blk] = IF gh.cur[hw.blk] = hw.sm THEN 0 ELSE @]
    /\ UNCHANGED dis

Call_WRAP_BOTTOM ==
    /\ Budget
    /\ hw' = APIO_WRAP_BOTTOM(hw)
    /\ emu' = APIO_WRAP_BOTTOM(emu)
    /\ gh' = [Tick("APIO_WRAP_BOTTOM") EXCEPT
                 !.marked[hw.blk][hw.sm] = TRUE,
                 !.after_set[hw.blk][hw.sm] =
                     (gh.at_set[hw.blk][hw.sm] # <<-1, -1>>)]
    /\ UNCHANGED dis

Call_WRAP_TOP ==
    /\ Budget
    /\ hw' = APIO_WRAP_TOP(hw)
    /\ emu' = APIO_WRAP_TOP(emu)
    /\ gh' = [Tick("APIO_WRAP_TOP") EXCEPT
                 !.marked[hw.blk][hw.sm] = TRUE,
                 !.after_set[hw.blk][hw.sm] =
                     (gh.at_set[hw.blk][hw.sm] # <<-1, -1>>),
                 !.k_end[hw.blk] = IF gh.cur[hw.blk] = hw.sm THEN 0 ELSE @]
    /\ UNCHANGED dis

\* The history of an APIO_ADD_INSTR call.
Emitted(INST) ==
    [Tick("APIO_ADD_INSTR") EXCEPT
        !.emitted[hw.blk] = Append(@, U16(INST)),
        !.order = Append(@, hw.blk),
        !.k_sel[hw.blk] = @ + 1,
        !.k_end[hw.blk] = @ + 1,
        !.oob = @ \/ hw.offset[hw.blk] >= APIO_MAX_PIO_INSTRS
                  \/ emu.offset[emu.blk] >= APIO_MAX_PIO_INSTRS]

\* APIO_ADD_INSTR in a session that stays within the buffer's capacity.
Call_ADD_INSTR(INST) ==
    /\ Budget
    /\ hw.offset[hw.blk] < APIO_MAX_PIO_INSTRS
    /\ emu.offset[emu.blk] < APIO_MAX_PIO_INSTRS
    /\ hw' = APIO_ADD_INSTR_hw(hw, INST, "none")
    /\ emu' = APIO_ADD_INSTR_emu(emu, INST, "none")
    /\ gh' = Emitted(INST)
    /\ UNCHANGED dis

\* APIO_ADD_INSTR as the code has it: no check of the cursor.
Call_ADD_INSTR_unchecked(INST) ==
    /\ Budget
    /\ hw.offset[hw.blk] < APIO_MAX_PIO_INSTRS + MaxOverrun
    /\ \E ub \in UBOutcomes :
          /\ hw' = APIO_ADD_INSTR_hw(hw, INST, ub)
          /\ emu' = APIO_ADD_INSTR_emu(emu, INST, ub)
    /\ gh' = Emitted(INST)
    /\ UNCHANGED dis

Call_SM_CLKDIV_SET(INT, FRAC) ==
    /\ Budget
    /\ hw' = APIO_SM_CLKDIV_SET_hw(hw, INT, FRAC)
    /\ emu' = APIO_SM_CLKDIV_SET_emu(emu, INT, FRAC)
    /\ gh' = Tick("APIO_SM_CLKDIV_SET")
    /\ UNCHANGED dis

Call_SM_EXECCTRL_SET(EXECCTRL) ==
    /\ Budget
    /\ hw' = APIO_SM_EXECCTRL_SET_hw(hw, EXECCTRL)
    /\ emu' = APIO_SM_EXECCTRL_SET_emu(emu, EXECCTRL)
    /\ gh' = [Tick("APIO_SM_EXECCTRL_SET") EXCEPT
                 !.arg = EXECCTRL,
                 !.at_set[hw.blk][hw.sm] =
                     <<hw.wrap_bottom[hw.blk][hw.sm], hw.wrap_top[hw.blk][hw.sm]>>,
                 !.after_set[hw.blk][hw.sm] = FALSE]
    /\ UNCHANGED dis

Call_SM_SHIFTCTRL_SET(SHIFTCTRL) ==
    /\ Budget
    /\ hw' = APIO_SM_SHIFTCTRL_SET_hw(hw, SHIFTCTRL)
    /\ emu' = APIO_SM_SHIFTCTRL_SET_emu(emu, SHIFTCTRL)
    /\ gh' = Tick("APIO_SM_SHIFTCTRL_SET")
    /\ UNCHANGED dis

Call_SM_PINCTRL_SET(PINCTRL) ==
    /\ Budget
    /\ hw' = APIO_SM_PINCTRL_SET_hw(hw, PINCTRL)
    /\ emu' = APIO_SM_PINCTRL_SET_emu(emu, PINCTRL)
    /\ gh' = Tick("APIO_SM_PINCTRL_SET")
    /\ UNCHANGED dis

Call_SM_EXEC_INSTR(INSTR) ==
    /\ Budget
    /\ emu.pre_instr_count[emu.blk][emu.sm] < MAX_PRE_INSTRS
    /\ hw' = APIO_SM_EXEC_INSTR_hw(hw, INSTR)
    /\ emu' = APIO_SM_EXEC_INSTR_emu(emu, INSTR)
    /\ gh' = Tick("APIO_SM_EXEC_INSTR")
    /\ UNCHANGED dis

Call_SM_JMP_TO_START ==
    /\ Budget
    /\ emu.pre_instr_count[emu.blk][emu.sm] < MAX_PRE_INSTRS
    /\ hw' = APIO_SM_JMP_TO_START_hw(hw)
    /\ emu' = APIO_SM_JMP_TO_START_emu(emu)
    /\ gh' = Tick("APIO_SM_JMP_TO_START")
    /\ UNCHANGED dis

Call_END_BLOCK ==
    /\ Budget
    /\ \E junk \in JunkWords : hw' = APIO_END_BLOCK_hw(hw, junk)
    /\ emu' = APIO_END_BLOCK_emu(emu)
    /\ gh' = Tick("APIO_END_BLOCK")
    /\ UNCHANGED dis

Call_ENABLE_SMS(BLOCK, SMS_MASK) ==
    /\ Budget
    /\ APIO_ENABLE_SMS_ok_hw(BLOCK, SMS_MASK)
    /\ APIO_ENABLE_SMS_ok_emu(BLOCK, SMS_MASK)
    /\ hw' = APIO_ENABLE_SMS_hw(hw, BLOCK, SMS_MASK)
    /\ emu' = APIO_ENABLE_SMS_emu(emu, BLOCK, SMS_MASK)
    /\ gh' = Tick("APIO_ENABLE_SMS")
    /\ UNCHANGED dis

Call_ENABLE_SM(BLOCK, SM_MASK) ==
    /\ Budget
    /\ APIO_ENABLE_SM_ok(BLOCK, SM_MASK)
    /\ hw' = APIO_ENABLE_SM_hw(hw, BLOCK, SM_MASK)
    /\ emu' = APIO_ENABLE_SM_emu(emu, BLOCK, SM_MASK)
    /\ gh' = Tick("APIO_ENABLE_SM")
    /\ UNCHANGED dis

(***************************************************************************)
(* Initial states: a fresh session, or a session in which Prefill no-ops   *)
(* have already been emitted to block 0 (APIO_ASM_INIT followed by Prefill *)
(* calls of APIO_ADD_INSTR(APIO_NOP)).                                     *)
(***************************************************************************)
Prefilled(n) ==
    /\ hw = [HwFresh EXCEPT
                !.instr_scratch = [i \in InstrIdx |->
                                      IF i < n THEN APIO_NOP ELSE @[i]],
                !.offset[0] = n]
    /\ emu = [EmuFresh EXCEPT
                !.instr[0] = [i \in InstrIdx |-> IF i < n THEN APIO_NOP ELSE @[i]],
                !.offset[0] = n]
    /\ gh = GhFresh(n)

Init ==
    /\ \E n \in {0, Prefill} : Prefilled(n)
    /\ dis = DisIdle

OtherCalls ==
    \/ Call_ASM_INIT
    \/ \E b \in BlockInputs : Call_SET_BLOCK(b)
    \/ \E s \in SmInputs : Call_SET_SM(s)
    \/ Call_START
    \/ Call_END
    \/ Call_WRAP_BOTTOM
    \/ Call_WRAP_TOP
    \/ Call_SM_CLKDIV_SET(15000, 0)
    \/ \E e \in ExecctrlInputs : Call_SM_EXECCTRL_SET(e)
    \/ Call_SM_SHIFTCTRL_SET(Or32(APIO_AUTOPULL, APIO_PULL_THRESH(8)))
    \/ Call_SM_PINCTRL_SET(Or32(APIO_SET_BASE(0), APIO_SET_COUNT(1)))
    \/ Call_SM_EXEC_INSTR(APIO_SET_PINS(0))
    \/ Call_SM_JMP_TO_START
    \/ Call_END_BLOCK
    \/ \E b \in BlockInputs, m \in MaskInputs : Call_ENABLE_SMS(b, m)
    \/ \E b \in BlockInputs, m \in MaskInputs : Call_ENABLE_SM(b, m)

Next ==
    \/ \E w \in EmitWords : Call_ADD_INSTR(w)
    \/ OtherCalls

Spec == Init /\ [][Next]_vars

\* The builder as the code has it, with no capacity assumed.
NextCap ==
    \/ \E w \in EmitWords : Call_ADD_INSTR_unchecked(w)
    \/ OtherCalls

SpecCap == Init /\ [][NextCap]_vars


(***************************************************************************)
(* The decoder on its own: the initial state holds the arguments of one    *)
(* call of apio_instruction_decoder (a word built by an instruction macro  *)
(* with an in-range operand, optionally a MOV source modifier and a delay, *)
(* and an origin offset); the call writes out_str.                         *)
(***************************************************************************)
OpcodeOf(w) == BitAnd(Shr(w, 13), 7)
IsJmpMacro(m) == OpcodeOf(m[2]) = 0
IsPlainMovMacro(m) == OpcodeOf(m[2]) = 5 /\ BitAnd(Shr(m[2], 3), 3) = 0

OperandInputs(m) ==
    IF m[3] = 0 THEN {0}
    ELSE IF IsJmpMacro(m) THEN 0 .. 31
    ELSE {0, 1, 5, 7, 13, 31} \cap (0 .. m[3])
ModInputs(m) == IF IsPlainMovMacro(m) THEN {"", "invert", "reverse"} ELSE {""}
DelayInputs == {0, 1, 31}
OriginInputs(m) == IF IsJmpMacro(m) THEN 0 .. 31 ELSE {0}

BuiltWord(m, x, mod, d) ==
    LET w == MacroWord(m, x)
        wm == IF mod = "invert" THEN APIO_MOV_SRC_INVERT(w)
              ELSE IF mod = "reverse" THEN APIO_MOV_SRC_REVERSE(w)
              ELSE w
    IN  IF d = 0 THEN wm ELSE APIO_ADD_DELAY(wm, d)

InitDec ==
    /\ Prefilled(0)
    /\ \E m \in InstrMacros :
         \E x \in OperandInputs(m), mod \in ModInputs(m), d \in DelayInputs,
            o \in OriginInputs(m) :
            dis = [DisIdle EXCEPT
                     !.instr = BuiltWord(m, x, mod, d), !.start_offset = o,
                     !.m = m, !.x = x, !.mod = mod, !.d = d]

Call_instruction_decoder ==
    /\ ~dis.decoded
    /\ dis' = [dis EXCEPT
                 !.out_str = apio_instruction_decoder(dis.instr, dis.start_offset),
                 !.decoded = TRUE]
    /\ UNCHANGED <<hw, emu, gh>>

SpecDec == InitDec /\ [][Call_instruction_decoder]_vars

(***************************************************************************)
(* The clock divider on any 16-bit integer part and 8-bit fraction: the    *)
(* initial state holds the arguments <<INT, FRAC>> of the session's first  *)
(* call, which is APIO_SM_CLKDIV_SET.  Every integer part is tried with    *)
(* three fractions, and every fraction with five integer parts.            *)
(***************************************************************************)
ClkInts == 0 .. 65535
ClkFracs(I) ==
    IF I \in {0, 1, 15000, 32768, 65535} THEN 0 .. 255 ELSE {0, 165, 255}

InitClk ==
    /\ hw = HwFresh
    /\ emu = EmuFresh
    /\ dis = DisIdle
    /\ \E I \in ClkInts :
         \E F \in ClkFracs(I) : gh = [GhFresh(0) EXCEPT !.arg = <<I, F>>]

Call_SM_CLKDIV_SET_first ==
    /\ gh.nops = 0
    /\ hw' = APIO_SM_CLKDIV_SET_hw(hw, gh.arg[1], gh.arg[2])
    /\ emu' = APIO_SM_CLKDIV_SET_emu(emu, gh.arg[1], gh.arg[2])
    /\ gh' = Tick("APIO_SM_CLKDIV_SET")
    /\ UNCHANGED dis

SpecClk == InitClk /\ [][Call_SM_CLKDIV_SET_first]_vars

(***************************************************************************)
(* The instruction macros on any operand and delay: the initial state      *)
(* holds the arguments, the step expands APIO_ADD_DELAY(NAME(x), d).       *)
(***************************************************************************)
AnyOperands == (0 .. 40) \cup {63, 64, 255, 256, 65535}
AnyDelays == {0, 1, 31, 32, 33, 255}

InitEnc ==
    /\ Prefilled(0)
    /\ \E m \in InstrMacros :
         \E x \in (IF m[3] = 0 THEN {0} ELSE AnyOperands), d \in AnyDelays :
            dis = [DisIdle EXCEPT !.m = m, !.x = x, !.d = d, !.built = FALSE]

Call_InstrMacro ==
    /\ ~dis.built
    /\ dis' = [dis EXCEPT
                 !.instr = APIO_ADD_DELAY(MacroWord(dis.m, dis.x), dis.d),
                 !.built = TRUE]
    /\ UNCHANGED <<hw, emu, gh>>

SpecEnc == InitEnc /\ [][Call_InstrMacro]_vars

(***************************************************************************)
(* The decoder on any 16-bit word: instr is a uint16_t, start_offset a     *)
(* uint8_t.  Only the JMP case reads start_offset.                         *)
(***************************************************************************)
WordInputs == 0 .. 65535
WordOrigins(w) == IF OpcodeOf(w) = 0 THEN {0, 1, 31, 255} ELSE {0, 255}

InitWord ==
    /\ Prefilled(0)
    /\ \E w \in WordInputs :
         \E o \in WordOrigins(w) :
            dis = [DisIdle EXCEPT !.instr = w, !.start_offset = o]

SpecWord == InitWord /\ [][Call_instruction_decoder]_vars

(***************************************************************************)
(* Sessions that also declare labels.                                      *)
(***************************************************************************)
LabelOffsets == {-1, 1, 250}

Call_LABEL_NEW ==
    /\ Budget
    /\ gh' = [Tick("APIO_LABEL_NEW") EXCEPT
                 !.label = [hw |-> APIO_LABEL_NEW(hw),
                            emu |-> APIO_LABEL_NEW(emu), offset |-> 0]]
    /\ UNCHANGED <<hw, emu, dis>>

Call_LABEL_NEW_OFFSET(OFFSET) ==
    /\ Budget
    /\ gh' = [Tick("APIO_LABEL_NEW_OFFSET") EXCEPT
                 !.label = [hw |-> APIO_LABEL_NEW_OFFSET(hw, OFFSET),
                            emu |-> APIO_LABEL_NEW_OFFSET(emu, OFFSET),
                            offset |-> OFFSET]]
    /\ UNCHANGED <<hw, emu, dis>>

NextLabel ==
    \/ Call_LABEL_NEW
    \/ \E n \in LabelOffsets : Call_LABEL_NEW_OFFSET(n)
    \/ \E w \in EmitWords : Call_ADD_INSTR(w)
    \/ OtherCalls

SpecLabel == Init /\ [][NextLabel]_vars

(***************************************************************************)
(* Enable calls with any constant arguments.  A call the build's           *)
(* _Static_asserts reject does not compile, so that build takes no step;   *)
(* the other build runs it.                                                *)
(***************************************************************************)
BlockArgs == {0, 2, 3}
MaskArgs == {0, 1, 6, 15, 16}

Attempt(name, BLOCK, MASK, ok_hw, ok_emu) ==
    [Tick(name) EXCEPT !.att = [block |-> BLOCK, mask |-> MASK,
                                hw |-> ok_hw, emu |-> ok_emu]]

Try_ENABLE_SMS(BLOCK, SMS_MASK) ==
    /\ Budget
    /\ hw' = IF APIO_ENABLE_SMS_ok_hw(BLOCK, SMS_MASK)
             THEN APIO_ENABLE_SMS_hw(hw, BLOCK, SMS_MASK)
             ELSE hw
    /\ \E ub \in UBOutcomes :
          emu' = IF APIO_ENABLE_SMS_ok_emu(BLOCK, SMS_MASK)
                 THEN APIO_ENABLE_SMS_emu_any(emu, BLOCK, SMS_MASK, ub)
                 ELSE emu
    /\ gh' = Attempt("APIO_ENABLE_SMS", BLOCK, SMS_MASK,
                     APIO_ENABLE_SMS_ok_hw(BLOCK, SMS_MASK),
                     APIO_ENABLE_SMS_ok_emu(BLOCK, SMS_MASK))
    /\ UNCHANGED dis

Try_ENABLE_SM(BLOCK, SM_MASK) ==
    /\ Budget
    /\ hw' = IF APIO_ENABLE_SM_ok(BLOCK, SM_MASK)
             THEN APIO_ENABLE_SM_hw(hw, BLOCK, SM_MASK)
             ELSE hw
    /\ emu' = IF APIO_ENABLE_SM_ok(BLOCK, SM_MASK)
              THEN APIO_ENABLE_SM_emu(emu, BLOCK, SM_MASK)
              ELSE emu
    /\ gh' = Attempt("APIO_ENABLE_SM", BLOCK, SM_MASK,
                     APIO_ENABLE_SM_ok(BLOCK, SM_MASK),
                     APIO_ENABLE_SM_ok(BLOCK, SM_MASK))
    /\ UNCHANGED dis

NextEnable ==
    \/ \E b \in BlockArgs, m \in MaskArgs : Try_ENABLE_SMS(b, m)
    \/ \E b \in BlockArgs, m \in MaskArgs : Try_ENABLE_SM(b, m)

SpecEnable == Init /\ [][NextEnable]_vars

(***************************************************************************)
(* apio_log_sm (apio_dis.h 474-527).  Each APIO_LOG call is recorded as    *)
(* its format string and its arguments in order; the user's log function   *)
(* does the formatting.  regs is the build's register image per block and  *)
(* unit, words the instruction buffer handed in (indexed from 0).          *)
(***************************************************************************)
LogLine(fmt, args) == [fmt |-> fmt, args |-> args]

\* faulty variant: .wrap is logged ahead of the instruction it closes
RECURSIVE LogInstrs_wrap_first(_, _, _, _, _, _, _)
LogInstrs_wrap_first(words, ii, first_instr, start, end, wrap_bottom, wrap_top) ==
    IF ii > end THEN <<>>
    ELSE (IF ii = start THEN <<LogLine("  .start", <<>>)>> ELSE <<>>)
         \o (IF ii = wrap_bottom THEN <<LogLine("  .wrap_target", <<>>)>>
             ELSE <<>>)
         \o (IF ii = wrap_top THEN <<LogLine("  .wrap", <<>>)>> ELSE <<>>)
         \o <<LogLine("    %d: 0x%04X ; %s",
                      <<ii - first_instr, words[ii],
                        apio_instruction_decoder(words[ii], first_instr)>>)>>
         \o LogInstrs_wrap_first(words, ii + 1, first_instr, start, end,
                                 wrap_bottom, wrap_top)

RECURSIVE LogInstrs(_, _, _, _, _, _, _)
LogInstrs(words, ii, first_instr, start, end, wrap_bottom, wrap_top) ==
    IF ii > end THEN <<>>
    ELSE (IF ii = start THEN <<LogLine("  .start", <<>>)>> ELSE <<>>)
         \o (IF ii = wrap_bottom THEN <<LogLine("  .wrap_target", <<>>)>>
             ELSE <<>>)
         \o <<LogLine("    %d: 0x%04X ; %s",
                      <<ii - first_instr, words[ii],
                        apio_instruction_decoder(words[ii], first_instr)>>)>>
         \o (IF ii = wrap_top THEN <<LogLine("  .wrap", <<>>)>> ELSE <<>>)
         \o LogInstrs(words, ii + 1, first_instr, start, end,
                      wrap_bottom, wrap_top)

apio_log_sm(regs, sm_name, pio_block, pio_sm, words, first_instr, start, end) ==
    LET sm_reg == regs[IF pio_block = 0 THEN 0
                       ELSE IF pio_block = 1 THEN 1 ELSE 2][pio_sm]
        clkdiv_int == APIO_CLKDIV_INT_FROM_REG(sm_reg.clkdiv)
        clkdiv_frac == APIO_CLKDIV_FRAC_FROM_REG(sm_reg.clkdiv)
        wrap_bottom == APIO_WRAP_BOTTOM_FROM_REG(sm_reg.execctrl)
        wrap_top == APIO_WRAP_TOP_FROM_REG(sm_reg.execctrl)
    IN  << LogLine("PIO%d:%d %s (%d instructions)",
                   <<pio_block, pio_sm, sm_name, end - first_instr + 1>>),
           LogLine("  CLKDIV: %d.%02d EXECCTRL: 0x%08X SHIFTCTRL: 0x%08X PINCTRL: 0x%08X",
                   <<clkdiv_int, clkdiv_frac, sm_reg.execctrl,
                     sm_reg.shiftctrl, sm_reg.pinctrl>>),
           LogLine("  .program pio%d_sm%d", <<pio_block, pio_sm>>) >>
        \o LogInstrs(words, first_instr, first_instr, start, end,
                     wrap_bottom, wrap_top)

\* A read of the emulated block's instruction row.
EmuRead(c, b, i, junk) ==
    IF i >= APIO_MAX_PIO_INSTRS THEN junk ELSE c.instr[b][i]

\* faulty variant: the listing starts at the block's first word
APIO_LOG_SM_hw_from_zero(c, NAME, junk) ==
    apio_log_sm(c.sm_reg, NAME, c.blk, c.sm,
                [i \in 0 .. 255 |-> ScratchRead(c, i, junk)],
                0, c.start[c.blk][c.sm], c.end[c.blk][c.sm])

APIO_LOG_SM_hw(c, NAME, junk) ==
    apio_log_sm(c.sm_reg, NAME, c.blk, c.sm,
                [i \in 0 .. 255 |-> ScratchRead(c, i, junk)],
                c.first_instr[c.blk][c.sm], c.start[c.blk][c.sm],
                c.end[c.blk][c.sm])

APIO_LOG_SM_emu(c, NAME, junk) ==
    apio_log_sm(c.pio_sm_reg, NAME, c.blk, c.sm,
                [i \in 0 .. 255 |-> EmuRead(c, c.blk, i, junk)],
                c.first_instr[c.blk][c.sm], c.start[c.blk][c.sm],
                c.end[c.blk][c.sm])

Call_LOG_SM(NAME) ==
    /\ Budget
    /\ \E junk \in JunkWords :
          dis' = [dis EXCEPT !.log = [hw |-> APIO_LOG_SM_hw(hw, NAME, junk),
                                      emu |-> APIO_LOG_SM_emu(emu, NAME, junk)]]
    /\ gh' = Tick("APIO_LOG_SM")
    /\ UNCHANGED <<hw, emu>>

(***************************************************************************)
(* Sessions that log the current unit at any point.                        *)
(***************************************************************************)
NextLog ==
    \/ Call_LOG_SM("sm")
    \/ \E w \in EmitWords : Call_ADD_INSTR(w)
    \/ OtherCalls

SpecLog == Init /\ [][NextLog]_vars

(***************************************************************************)
(* apio.h 406-418, emulated build: APIO_TXF and APIO_RXF name the entry of *)
(* the current unit's queue at its count and increment the count.  There   *)
(* is no check of the count against APIO_MAX_FIFO_DEPTH; an access at a    *)
(* count of APIO_MAX_FIFO_DEPTH or more is outside the unit's row, with    *)
(* the outcomes of UBOutcomes: "none", nothing else changes; "flat", the   *)
(* store lands in the row that follows in tx_fifos or, past the last row,  *)
(* in the bytes of tx_fifo_count (rx_fifos, rx_fifo_count likewise).  The  *)
(* count is a uint8_t and is incremented in either case.  The hardware     *)
(* build accesses the peripheral's queue register, which keeps no image.   *)
(***************************************************************************)
Bytes32(v) == <<v[2] % 256, v[2] \div 256, v[1] % 256, v[1] \div 256>>

FifoStore(c, fifos, count, VALUE, ub) ==
    LET i == c[count][c.blk][c.sm]
        f == (c.blk * APIO_MAX_SMS_PER_BLOCK + c.sm) * APIO_MAX_FIFO_DEPTH + i
        total == APIO_MAX_PIO_BLOCKS * APIO_MAX_SMS_PER_BLOCK
                    * APIO_MAX_FIFO_DEPTH
        stored ==
            IF i < APIO_MAX_FIFO_DEPTH
            THEN [c EXCEPT ![fifos][c.blk][c.sm][i] = VALUE]
            ELSE IF ub = "flat" /\ f < total
            THEN [c EXCEPT ![fifos]
                      [f \div (APIO_MAX_SMS_PER_BLOCK * APIO_MAX_FIFO_DEPTH)]
                      [(f \div APIO_MAX_FIFO_DEPTH) % APIO_MAX_SMS_PER_BLOCK]
                      [f % APIO_MAX_FIFO_DEPTH] = VALUE]
            ELSE IF ub = "flat" /\ f - total < APIO_MAX_PIO_BLOCKS
            THEN [c EXCEPT ![count][f - total] =
                      [s \in SMs |-> Bytes32(VALUE)[s + 1]]]
            ELSE c
    IN  [stored EXCEPT ![count][c.blk][c.sm] = U8(i + 1)]

\* APIO_TXF = VALUE
APIO_TXF_emu(c, VALUE, ub) ==
    FifoStore(c, "tx_fifos", "tx_fifo_count", VALUE, ub)

\* APIO_RXF = VALUE, as a test harness fills the receive queue
APIO_RXF_emu(c, VALUE, ub) ==
    FifoStore(c, "rx_fifos", "rx_fifo_count", VALUE, ub)

\* ... = APIO_RXF: the entry is read, the count is incremented
APIO_RXF_read_emu(c) ==
    [c EXCEPT !.rx_fifo_count[c.blk][c.sm] = U8(@ + 1)]

\* apio.h 244-245
PIO_CLEAR_IRQ_emu(c, BLOCK) == [c EXCEPT !.irq[BLOCK] = U32(-1)]

\* apio.h 476-483 with the aliases of apio.h 148-153
APIO_GPIOBASE_16_emu(c) == [c EXCEPT !.gpio_base[c.blk] = U32(16)]

FifoWords == {<<258, 772>>}

Call_TXF(VALUE) ==
    /\ Budget
    /\ emu.tx_fifo_count[emu.blk][emu.sm] < APIO_MAX_FIFO_DEPTH + MaxOverrun
    /\ \E ub \in UBOutcomes : emu' = APIO_TXF_emu(emu, VALUE, ub)
    /\ gh' = Tick("APIO_TXF")
    /\ UNCHANGED <<hw, dis>>

Call_RXF(VALUE) ==
    /\ Budget
    /\ emu.rx_fifo_count[emu.blk][emu.sm] < APIO_MAX_FIFO_DEPTH + MaxOverrun
    /\ \E ub \in UBOutcomes : emu' = APIO_RXF_emu(emu, VALUE, ub)
    /\ gh' = Tick("APIO_RXF")
    /\ UNCHANGED <<hw, dis>>

Call_RXF_read ==
    /\ Budget
    /\ emu.rx_fifo_count[emu.blk][emu.sm] < APIO_MAX_FIFO_DEPTH + MaxOverrun
    /\ emu' = APIO_RXF_read_emu(emu)
    /\ gh' = Tick("APIO_RXF")
    /\ UNCHANGED <<hw, dis>>

Call_CLEAR_IRQ(BLOCK) ==
    /\ Budget
    /\ _STATIC_BLOCK_ASSERT(BLOCK)
    /\ emu' = PIO_CLEAR_IRQ_emu(emu, BLOCK)
    /\ gh' = Tick("PIO_CLEAR_IRQ")
    /\ UNCHANGED <<hw, dis>>

Call_GPIOBASE_16 ==
    /\ Budget
    /\ emu' = APIO_GPIOBASE_16_emu(emu)
    /\ gh' = Tick("APIO_GPIOBASE_16")
    /\ UNCHANGED <<hw, dis>>

Call_ENABLE_PIOS ==
    /\ Budget
    /\ emu' = [emu EXCEPT !.pios_enabled = 1]
    /\ gh' = Tick("APIO_ENABLE_PIOS")
    /\ UNCHANGED <<hw, dis>>

(***************************************************************************)
(* Sessions that use the queues, the interrupt flags and the GPIO base.    *)
(* They start after APIO_ASM_INIT, with or without APIO_ENABLE_PIOS before *)
(* it (pios_enabled is 0xFF in the static initialiser, apio.h 182), and    *)
(* with the transmit queue of block 0, unit 0 empty or one short of full.  *)
(***************************************************************************)
InitFifo ==
    /\ hw = HwFresh
    /\ \E p \in {1, 255}, n \in {0, APIO_MAX_FIFO_DEPTH - 1} :
          emu = [APIO_ASM_INIT_emu([pios_enabled |-> p]) EXCEPT
                    !.tx_fifos[0][0] =
                        [i \in 0 .. (APIO_MAX_FIFO_DEPTH - 1) |->
                            IF i < n THEN <<258, 772>> ELSE ZERO32],
                    !.tx_fifo_count[0][0] = n]
    /\ gh = GhFresh(0)
    /\ dis = DisIdle

NextFifo ==
    \/ \E v \in FifoWords : Call_TXF(v)
    \/ \E v \in FifoWords : Call_RXF(v)
    \/ Call_RXF_read
    \/ \E b \in BlockInputs : Call_CLEAR_IRQ(b)
    \/ Call_GPIOBASE_16
    \/ Call_ENABLE_PIOS
    \/ \E w \in EmitWords : Call_ADD_INSTR(w)
    \/ OtherCalls

SpecFifo == InitFifo /\ [][NextFifo]_vars

(***************************************************************************)
(* A fixed program: the function of example/main.c, which builds one       *)
(* three-instruction program for one unit, configures it, logs it, loads   *)
(* it and enables the unit.  Each call is <<macro, argument, argument>>.   *)
(* main_c follows main.c line by line for block b and unit s (main.c has   *)
(* b = s = 0).  blink is the same program with the wrap-bottom marker      *)
(* ahead of the first instruction and without the optional register calls; *)
(* e tells whether it calls APIO_SM_EXECCTRL_SET.                          *)
(***************************************************************************)
main_c(b, s) ==
    << <<"APIO_ASM_INIT", 0, 0>>,
       <<"APIO_SET_BLOCK", b, 0>>,
       <<"APIO_SET_SM", s, 0>>,
       <<"APIO_ADD_INSTR", APIO_SET_PIN_DIRS(1), 0>>,
       <<"APIO_WRAP_BOTTOM", 0, 0>>,
       <<"APIO_ADD_INSTR", APIO_ADD_DELAY(APIO_SET_PINS(1), 31), 0>>,
       <<"APIO_WRAP_TOP", 0, 0>>,
       <<"APIO_ADD_INSTR", APIO_ADD_DELAY(APIO_SET_PINS(0), 31), 0>>,
       <<"APIO_SM_CLKDIV_SET", 15000, 0>>,
       <<"APIO_SM_EXECCTRL_SET", 0, 0>>,
       <<"APIO_SM_SHIFTCTRL_SET", 0, 0>>,
       <<"APIO_SM_PINCTRL_SET", Pow2(26), 0>>,
       <<"APIO_SM_JMP_TO_START", 0, 0>>,
       <<"APIO_LOG_SM", 0, 0>>,
       <<"APIO_END_BLOCK", 0, 0>>,
       <<"APIO_ENABLE_SMS", b, Pow2(s)>> >>

blink(b, s, e) ==
    << <<"APIO_ASM_INIT", 0, 0>>,
       <<"APIO_SET_BLOCK", b, 0>>,
       <<"APIO_SET_SM", s, 0>>,
       <<"APIO_WRAP_BOTTOM", 0, 0>>,
       <<"APIO_ADD_INSTR", APIO_SET_PIN_DIRS(1), 0>>,
       <<"APIO_ADD_INSTR", APIO_ADD_DELAY(APIO_SET_PINS(1), 31), 0>>,
       <<"APIO_WRAP_TOP", 0, 0>>,
       <<"APIO_ADD_INSTR", APIO_ADD_DELAY(APIO_SET_PINS(0), 31), 0>>,
       <<"APIO_SM_CLKDIV_SET", 15000, 0>> >>
    \o (IF e THEN << <<"APIO_SM_EXECCTRL_SET", 0, 0>> >> ELSE <<>>)
    \o << <<"APIO_LOG_SM", 0, 0>>,
          <<"APIO_END_BLOCK", 0, 0>>,
          <<"APIO_ENABLE_SMS", b, Pow2(s)>> >>

Programs ==
    {main_c(b, s) : b \in BlockInputs, s \in SmInputs}
    \cup {blink(b, s, e) : b \in BlockInputs, s \in SmInputs, e \in BOOLEAN}

InitMain ==
    /\ Prefilled(0)
    /\ \E p \in Programs : dis = [DisIdle EXCEPT !.script = p]

\* The call the program makes next, and its arguments.
At(name) ==
    /\ gh.nops < Len(dis.script)
    /\ dis.script[gh.nops + 1][1] = name
Arg1 == dis.script[gh.nops + 1][2]
Arg2 == dis.script[gh.nops + 1][3]

NextMain ==
    \/ At("APIO_ASM_INIT") /\ Call_ASM_INIT
    \/ At("APIO_SET_BLOCK") /\ Call_SET_BLOCK(Arg1)
    \/ At("APIO_SET_SM") /\ Call_SET_SM(Arg1)
    \/ At("APIO_WRAP_BOTTOM") /\ Call_WRAP_BOTTOM
    \/ At("APIO_WRAP_TOP") /\ Call_WRAP_TOP
    \/ At("APIO_ADD_INSTR") /\ Call_ADD_INSTR(Arg1)
    \/ At("APIO_SM_CLKDIV_SET") /\ Call_SM_CLKDIV_SET(Arg1, Arg2)
    \/ At("APIO_SM_EXECCTRL_SET") /\ Call_SM_EXECCTRL_SET(U32(Arg1))
    \/ At("APIO_SM_SHIFTCTRL_SET") /\ Call_SM_SHIFTCTRL_SET(U32(Arg1))
    \/ At("APIO_SM_PINCTRL_SET") /\ Call_SM_PINCTRL_SET(U32(Arg1))
    \/ At("APIO_SM_JMP_TO_START") /\ Call_SM_JMP_TO_START
    \/ At("APIO_LOG_SM") /\ Call_LOG_SM("Example SM")
    \/ At("APIO_END_BLOCK") /\ Call_END_BLOCK
    \/ At("APIO_ENABLE_SMS") /\ Call_ENABLE_SMS(Arg1, Arg2)

SpecMain == InitMain /\ [][NextMain]_vars

(***************************************************************************)
(* Sessions that end with one register call whose argument is built from   *)
(* the helpers of apio_reg.h 160-198, one per field, on any operands (for  *)
(* AUTOPUSH and AUTOPULL 1 if the helper is given, for a shift direction 1 *)
(* for _R and 0 for _L).  Markers and emits before the call give the unit  *)
(* its wrap bounds.                                                        *)
(***************************************************************************)
FieldArgs == {0, 21, 255}

OrAll(vs) == Or32(vs[1], IF Len(vs) = 1 THEN ZERO32 ELSE
             Or32(vs[2], IF Len(vs) = 2 THEN ZERO32 ELSE
             Or32(vs[3], IF Len(vs) = 3 THEN ZERO32 ELSE
             Or32(vs[4], Or32(vs[5], Or32(vs[6], vs[7]))))))

Call_SM_EXECCTRL_SET_of(jmp_pin, sel, n) ==
    LET EXECCTRL ==
            OrAll(<<APIO_EXECCTRL_JMP_PIN(jmp_pin),
                    CASE sel = 0 -> APIO_STATUS_SEL_TXLEVEL
                      [] sel = 1 -> APIO_STATUS_SEL_RXLEVEL
                      [] sel = 2 -> APIO_STATUS_SEL_IRQ,
                    APIO_STATUS_N(n)>>)
    IN  /\ Budget
        /\ hw' = APIO_SM_EXECCTRL_SET_hw(hw, EXECCTRL)
        /\ emu' = APIO_SM_EXECCTRL_SET_emu(emu, EXECCTRL)
        /\ gh' = [Tick("APIO_SM_EXECCTRL_SET") EXCEPT
                     !.arg = EXECCTRL,
                     !.fields = <<jmp_pin, sel, n>>]
        /\ UNCHANGED dis

Call_SM_SHIFTCTRL_SET_of(in_count, autopush, autopull, in_r, out_r, push, pull) ==
    LET SHIFTCTRL ==
            OrAll(<<APIO_IN_COUNT(in_count),
                    IF autopush = 1 THEN APIO_AUTOPUSH ELSE ZERO32,
                    IF autopull = 1 THEN APIO_AUTOPULL ELSE ZERO32,
                    IF in_r = 1 THEN APIO_IN_SHIFTDIR_R ELSE APIO_IN_SHIFTDIR_L,
                    IF out_r = 1 THEN APIO_OUT_SHIFTDIR_R
                    ELSE APIO_OUT_SHIFTDIR_L,
                    APIO_PUSH_THRESH(push),
                    APIO_PULL_THRESH(pull)>>)
    IN  /\ Budget
        /\ hw' = APIO_SM_SHIFTCTRL_SET_hw(hw, SHIFTCTRL)
        /\ emu' = APIO_SM_SHIFTCTRL_SET_emu(emu, SHIFTCTRL)
        /\ gh' = [Tick("APIO_SM_SHIFTCTRL_SET") EXCEPT
                     !.arg = SHIFTCTRL,
                     !.fields = <<in_count, autopush, autopull, in_r, out_r,
                                  push, pull>>]
        /\ UNCHANGED dis

Call_SM_PINCTRL_SET_of(a) ==
    LET PINCTRL ==
            OrAll(<<APIO_OUT_BASE(a[1]), APIO_SET_BASE(a[2]),
                    APIO_SIDE_SET_BASE(a[3]), APIO_IN_BASE(a[4]),
                    APIO_OUT_COUNT(a[5]), APIO_SET_COUNT(a[6]),
                    APIO_SIDE_SET_COUNT(a[7])>>)
    IN  /\ Budget
        /\ hw' = APIO_SM_PINCTRL_SET_hw(hw, PINCTRL)
        /\ emu' = APIO_SM_PINCTRL_SET_emu(emu, PINCTRL)
        /\ gh' = [Tick("APIO_SM_PINCTRL_SET") EXCEPT
                     !.arg = PINCTRL,
                     !.fields = a]
        /\ UNCHANGED dis

NextReg ==
    /\ gh.fields = <<>>
    /\ \/ Call_WRAP_BOTTOM
       \/ Call_WRAP_TOP
       \/ Call_ADD_INSTR(APIO_NOP)
       \/ \E j \in FieldArgs, sel \in 0 .. 2, n \in FieldArgs :
             Call_SM_EXECCTRL_SET_of(j, sel, n)
       \/ \E i, ps, pl \in FieldArgs, f \in [1 .. 4 -> {0, 1}] :
             Call_SM_SHIFTCTRL_SET_of(i, f[1], f[2], f[3], f[4], ps, pl)
       \/ \E a \in [1 .. 7 -> FieldArgs] : Call_SM_PINCTRL_SET_of(a)

SpecReg == Init /\ [][NextReg]_vars

(***************************************************************************)
(* Programs that leave a block unfinished: words are emitted to block X,   *)
(* then to block Y, then X is selected again and written with              *)
(* APIO_END_BLOCK (the order apio.h 35-38 forbids).  Y may have received   *)
(* pre words before X's first.                                             *)
(***************************************************************************)
Interleaved(X, Y, pre, nx, ny) ==
    << <<"APIO_ASM_INIT", 0, 0>> >>
    \o (IF pre = 0 THEN <<>>
        ELSE << <<"APIO_SET_BLOCK", Y, 0>> >>
             \o [i \in 1 .. pre |-> <<"APIO_ADD_INSTR", APIO_NOP, 0>>])
    \o << <<"APIO_SET_BLOCK", X, 0>> >>
    \o [i \in 1 .. nx |-> <<"APIO_ADD_INSTR", APIO_SET_PINS(i), 0>>]
    \o << <<"APIO_SET_BLOCK", Y, 0>> >>
    \o [i \in 1 .. ny |-> <<"APIO_ADD_INSTR", APIO_SET_PIN_DIRS(i), 0>>]
    \o << <<"APIO_SET_BLOCK", X, 0>>,
          <<"APIO_END_BLOCK", 0, 0>> >>

InterleavedPrograms ==
    {Interleaved(b[1], b[2], pre, nx, ny) :
        b \in {c \in Blocks \X Blocks : c[1] # c[2]},
        pre \in 0 .. 2, nx \in 1 .. 3, ny \in 1 .. 3}

InitInterleaved ==
    /\ Prefilled(0)
    /\ \E p \in InterleavedPrograms : dis = [DisIdle EXCEPT !.script = p]

NextInterleaved ==
    \/ At("APIO_ASM_INIT") /\ Call_ASM_INIT
    \/ At("APIO_SET_BLOCK") /\ Call_SET_BLOCK(Arg1)
    \/ At("APIO_ADD_INSTR") /\ Call_ADD_INSTR(Arg1)
    \/ At("APIO_END_BLOCK") /\ Call_END_BLOCK

SpecInterleaved == InitInterleaved /\ [][NextInterleaved]_vars

(***************************************************************************)
(* Properties.                                                             *)
(***************************************************************************)
DescFields == {"first_instr", "start", "wrap_bottom", "wrap_top", "end"}

\* a builder call named op has just been made
Called(op) == gh'.nops = gh.nops + 1 /\ gh'.op = op

\* all five offsets of unit (b, s) in build c are block b's cursor
AtCursor(c, b, s) == \A f \in DescFields : c[f][b][s] = c.offset[b]

\* the wrap bounds of unit (b, s) in build c are its first instruction
WrapDefault(c, b, s) ==
    /\ c.wrap_bottom[b][s] = c.first_instr[b][s]
    /\ c.wrap_top[b][s] = c.first_instr[b][s]

\* C1: APIO_SET_SM(S) on the current block B leaves first_instr, start,
\* wrap_bottom, wrap_top and end of (B, S) equal to B's cursor, whatever was
\* called before, a previous selection of the same unit included; and a unit
\* selected in this session for which no wrap marker was called since has
\* wrap_bottom = wrap_top = first_instr.
C1_SetSmCapturesCursor ==
    /\ gh.op = "APIO_SET_SM" =>
          /\ AtCursor(hw, hw.blk, hw.sm)
          /\ AtCursor(emu, emu.blk, emu.sm)
    /\ \A b \in Blocks, s \in SMs :
          gh.selected[b][s] /\ ~gh.marked[b][s] =>
              WrapDefault(hw, b, s) /\ WrapDefault(emu, b, s)

\* a unit that already had a program is selected again at a later cursor
C1_Witness ==
    /\ gh.op = "APIO_SET_SM"
    /\ gh.prev = hw.sm
    /\ gh.kprev > 0
    /\ hw.first_instr[hw.blk][hw.sm] = hw.offset[hw.blk]
    /\ hw.offset[hw.blk] > gh.kprev
    /\ emu.wrap_top[emu.blk][emu.sm] = emu.offset[emu.blk]

MarkerOps == {"APIO_START", "APIO_WRAP_BOTTOM", "APIO_END", "APIO_WRAP_TOP"}

MarkerFields(op) ==
    CASE op = "APIO_START" -> {"start"}
      [] op = "APIO_WRAP_BOTTOM" -> {"wrap_bottom"}
      [] op = "APIO_END" -> {"end"}
      [] op = "APIO_WRAP_TOP" -> {"wrap_top", "end"}

\* build c became d by recording the cursor in exactly the fields of op
MarkerEffect(c, d, op) ==
    /\ \A f \in DescFields, b \in Blocks, s \in SMs :
          d[f][b][s] = IF f \in MarkerFields(op) /\ b = c.blk /\ s = c.sm
                       THEN c.offset[c.blk]
                       ELSE c[f][b][s]
    /\ d.offset = c.offset
    /\ d.blk = c.blk
    /\ d.sm = c.sm

C2_Step ==
    \A op \in MarkerOps :
        Called(op) =>
            /\ MarkerEffect(hw, hw', op)
            /\ MarkerEffect(emu, emu', op)
            /\ gh.cur[hw.blk] = hw.sm =>
                  \A f \in MarkerFields(op) :
                      /\ hw'[f][hw.blk][hw.sm] =
                            hw.first_instr[hw.blk][hw.sm] + gh.k_sel[hw.blk]
                      /\ emu'[f][emu.blk][emu.sm] =
                            emu.first_instr[emu.blk][emu.sm] + gh.k_sel[emu.blk]

\* C2: APIO_START, APIO_WRAP_BOTTOM and APIO_END each record the current
\* block's cursor in exactly the start, wrap_bottom, end field of the current
\* (block, unit) and change nothing else of the descriptors; APIO_WRAP_TOP
\* records it in wrap_top and in end.  When k instructions were emitted to
\* the block since the unit was selected at cursor c, the value recorded is
\* c + k.
C2_MarkersRecordCursor == [][C2_Step]_vars

\* APIO_WRAP_TOP after at least one instruction of a unit selected past 0
C2_Witness ==
    /\ gh.op = "APIO_WRAP_TOP"
    /\ gh.cur[hw.blk] = hw.sm
    /\ gh.k_sel[hw.blk] >= 1
    /\ hw.first_instr[hw.blk][hw.sm] > 0
    /\ hw.wrap_top[hw.blk][hw.sm] = hw.first_instr[hw.blk][hw.sm] + gh.k_sel[hw.blk]
    /\ emu.end[emu.blk][emu.sm] = emu.wrap_top[emu.blk][emu.sm]
    /\ hw.wrap_bottom[hw.blk][hw.sm] = hw.first_instr[hw.blk][hw.sm]

C3_Step ==
    Called("APIO_ADD_INSTR") =>
        LET b == hw.blk
            W == gh'.emitted[b][Len(gh'.emitted[b])]
        IN  /\ hw'.instr_scratch = [hw.instr_scratch EXCEPT ![hw.offset[b]] = W]
            /\ hw'.offset = [hw.offset EXCEPT ![b] = @ + 1]
            /\ emu'.instr = [emu.instr EXCEPT ![b][emu.offset[b]] = W]
            /\ emu'.offset = [emu.offset EXCEPT ![b] = @ + 1]

C3_State ==
    \A b \in Blocks :
        LET n == Len(gh.emitted[b])
        IN  /\ n <= APIO_MAX_PIO_INSTRS
            /\ hw.offset[b] = n
            /\ emu.offset[b] = n
            /\ \A i \in 0 .. (n - 1) : emu.instr[b][i] = gh.emitted[b][i + 1]
            /\ gh.solo[b] =>
                  \A i \in 0 .. (n - 1) :
                      hw.instr_scratch[i] = gh.emitted[b][i + 1]

\* C3: APIO_ADD_INSTR(W) stores W in the active block's buffer at the index the
\* block's cursor had before the call and advances that cursor by one; after
\* n <= 32 calls for a block since APIO_ASM_INIT the block's cursor is n and
\* index i of its buffer holds the i-th word for every i < n (the hardware
\* build's single scratch buffer: while that block alone is being built).
C3_EmitAppends == [][C3_Step]_vars /\ []C3_State

\* the 32nd instruction of a block has just been emitted
C3_Witness ==
    /\ gh.op = "APIO_ADD_INSTR"
    /\ hw.blk = 0
    /\ gh.solo[0]
    /\ hw.offset[0] = APIO_MAX_PIO_INSTRS
    /\ emu.offset[0] = APIO_MAX_PIO_INSTRS
    /\ hw.instr_scratch[31] = gh.emitted[0][32]
    /\ emu.instr[0][31] = gh.emitted[0][32]
    /\ gh.emitted[0][32] # gh.emitted[0][31]

C4_Step ==
    Called("APIO_END_BLOCK") /\ gh.solo[hw.blk] =>
        LET b == hw.blk
            n == hw.offset[b]
        IN  /\ n = Len(gh.emitted[b])
            /\ \A i \in InstrIdx :
                  hw'.instr_mem[b][i] = IF i < n THEN U32(gh.emitted[b][i + 1])
                                        ELSE hw.instr_mem[b][i]
            /\ \A x \in Blocks \ {b} : hw'.instr_mem[x] = hw.instr_mem[x]
            /\ hw'.sm_reg = hw.sm_reg
            /\ hw'.ctrl = hw.ctrl
            /\ emu'.max_offset = [emu.max_offset EXCEPT ![b] = n]
            /\ emu'.instr = emu.instr
            /\ \A i \in 0 .. (n - 1) : emu.instr[b][i] = gh.emitted[b][i + 1]

\* C4: when every instruction of block B was emitted while B was selected and
\* APIO_END_BLOCK is called before another block is selected, the call writes
\* exactly cursor[B] words: instruction memory word i of B is the i-th word
\* emitted for B for i < cursor[B], the words from cursor[B] on and the
\* instruction memory of the other blocks keep their content, and the
\* emulated build records max_offset[B] = cursor[B]; so for each block of a
\* session that builds its blocks one after another.
C4_EndBlockCopiesCursorWords == [][C4_Step]_vars

\* a second block is finalized after the first one
C4_Witness ==
    /\ gh.op = "APIO_END_BLOCK"
    /\ hw.blk = 2
    /\ gh.solo[2]
    /\ hw.offset[2] > 0
    /\ hw.instr_mem[2][0] = U32(gh.emitted[2][1])
    /\ emu.max_offset[2] = hw.offset[2]
    /\ emu.max_offset[0] > 0
    /\ hw.instr_mem[0][0] = U32(gh.emitted[0][1])

\* bits 31..17 and 6..0 of a register: everything but the wrap fields
NotWrapBits == <<65534, 127>>

ExecctrlHolds(c, reg) ==
    LET wb == c.wrap_bottom[c.blk][c.sm]
        wt == c.wrap_top[c.blk][c.sm]
    IN  /\ APIO_WRAP_BOTTOM_FROM_REG(reg) = wb
        /\ APIO_WRAP_TOP_FROM_REG(reg) = wt
        /\ And32(reg, NotWrapBits) = gh.arg
        /\ reg = <<gh.arg[1] + wt \div 16,
                   gh.arg[2] + 128 * wb + 4096 * (wt % 16)>>

\* C5: after APIO_SM_EXECCTRL_SET(E), E without bits in 16..7 and the unit's
\* wrap offsets in 0..31, the unit's execctrl image is E with wrap_bottom in
\* bits 11..7 and wrap_top in bits 16..12: APIO_WRAP_BOTTOM_FROM_REG and
\* APIO_WRAP_TOP_FROM_REG give back the descriptor's wrap_bottom and wrap_top
\* and the other bits are E's.
C5_ExecctrlCarriesWrap ==
    ( /\ gh.op = "APIO_SM_EXECCTRL_SET"
      /\ And32(gh.arg, NotWrapBits) = gh.arg
      /\ hw.wrap_bottom[hw.blk][hw.sm] < APIO_MAX_PIO_INSTRS
      /\ hw.wrap_top[hw.blk][hw.sm] < APIO_MAX_PIO_INSTRS )
    => /\ ExecctrlHolds(hw, hw.sm_reg[hw.blk][hw.sm].execctrl)
       /\ ExecctrlHolds(emu, emu.pio_sm_reg[emu.blk][emu.sm].execctrl)

\* caller bits given and the wrap bounds of a program that is not at 0
C5_Witness ==
    /\ gh.op = "APIO_SM_EXECCTRL_SET"
    /\ gh.arg # ZERO32
    /\ hw.wrap_bottom[hw.blk][hw.sm] > 0
    /\ hw.wrap_top[hw.blk][hw.sm] > hw.wrap_bottom[hw.blk][hw.sm]
    /\ hw.wrap_top[hw.blk][hw.sm] < APIO_MAX_PIO_INSTRS
    /\ APIO_WRAP_TOP_FROM_REG(hw.sm_reg[hw.blk][hw.sm].execctrl) =
          hw.wrap_top[hw.blk][hw.sm]

\* C6: no block's cursor ever exceeds APIO_MAX_PIO_INSTRS and no
\* APIO_ADD_INSTR stores at a buffer index of 32 or more: the 33rd
\* instruction of a block is refused.
C6_CapacityEnforced ==
    /\ \A b \in Blocks :
          /\ hw.offset[b] <= APIO_MAX_PIO_INSTRS
          /\ emu.offset[b] <= APIO_MAX_PIO_INSTRS
    /\ ~gh.oob

\* unit B = (blk, sm) was just selected after another unit A = gh.prev of
\* the same block, for which at least one instruction was emitted
SelectedAfterOther ==
    /\ gh.op = "APIO_SET_SM"
    /\ gh.prev \in SMs
    /\ gh.prev # hw.sm
    /\ hw.first_instr[hw.blk][gh.prev] < hw.offset[hw.blk]

\* C7 as stated: B.first_instr = A.end + 1 for every program A.
C7_FirstIsEndPlusOne ==
    SelectedAfterOther =>
        /\ hw.first_instr[hw.blk][hw.sm] = hw.end[hw.blk][gh.prev] + 1
        /\ emu.first_instr[emu.blk][emu.sm] = emu.end[emu.blk][gh.prev] + 1

\* C7: when unit B is selected in a block after unit A of the same block,
\* B.first_instr = A.end + k, k the number of instructions emitted to the
\* block since A.end was last recorded (by A's selection, APIO_WRAP_TOP or
\* APIO_END); B.first_instr = A.end + 1 exactly when k = 1.
C7_FirstIsEndPlusEmitted ==
    SelectedAfterOther =>
        /\ hw.first_instr[hw.blk][hw.sm] = hw.end[hw.blk][gh.prev] + gh.kprev
        /\ emu.first_instr[emu.blk][emu.sm] = emu.end[emu.blk][gh.prev] + gh.kprev
        /\ (hw.first_instr[hw.blk][hw.sm] = hw.end[hw.blk][gh.prev] + 1)
              <=> (gh.kprev = 1)

\* A used a wrap marker and emitted one instruction after its end was
\* recorded: B starts right after A's end
C7_Witness ==
    /\ SelectedAfterOther
    /\ gh.kprev = 1
    /\ gh.marked[hw.blk][gh.prev]
    /\ hw.wrap_top[hw.blk][gh.prev] = hw.end[hw.blk][gh.prev]
    /\ hw.first_instr[hw.blk][hw.sm] = hw.end[hw.blk][gh.prev] + 1
    /\ emu.first_instr[emu.blk][emu.sm] = emu.end[emu.blk][gh.prev] + 1

ImageFields == {"clkdiv", "execctrl", "shiftctrl", "pinctrl"}

\* C8: after every sequence of builder calls the two builds hold the same
\* program descriptors, the same register images, the same instruction
\* memory below each block's finalized cursor and the same enabled masks.
C8_BackendsAgree ==
    gh.session = 1 =>
        /\ \A f \in DescFields : hw[f] = emu[f]
        /\ \A b \in Blocks, s \in SMs, f \in ImageFields :
              hw.sm_reg[b][s][f] = emu.pio_sm_reg[b][s][f]
        /\ \A b \in Blocks :
              \A i \in 0 .. (emu.max_offset[b] - 1) :
                  i \in InstrIdx => hw.instr_mem[b][i] = U32(emu.instr[b][i])
        /\ \A b \in Blocks : hw.ctrl[b] = emu.enabled_sms[b]

\* every word the decoder inputs can be, and its text at origin 0
BuiltWords ==
    UNION {{BuiltWord(m, x, mod, d) :
               x \in OperandInputs(m), mod \in ModInputs(m), d \in DelayInputs} :
           m \in InstrMacros}

TextOf == [w \in BuiltWords |-> apio_instruction_decoder(w, 0)]

\* C9: two different words built by the instruction macros never decode to
\* the same text.
C9_DecodeDistinguishes ==
    dis.decoded /\ dis.start_offset = 0 =>
        \A w \in BuiltWords \ {dis.instr} : TextOf[w] # dis.out_str

RECURSIVE Decimal(_)
Decimal(n) ==
    IF n < 10 THEN DigitChar(n) ELSE Decimal(n \div 10) \o DigitChar(n % 10)

\* the number n as text
Numeral(n) == IF n < 0 THEN "-" \o Decimal(-n) ELSE Decimal(n)

\* C10: a JMP word with target T decoded with origin O reads "jmp ", the
\* condition of the word if it has one, the number T - O, and the delay of
\* the word.
C10_JmpTargetRelative ==
    dis.decoded /\ IsJmpMacro(dis.m) =>
        LET cond == BitAnd(Shr(dis.instr, 5), 7)
            T == BitAnd(dis.instr, 31)
        IN  dis.out_str =
               append_delay(
                   (IF cond = 0 THEN "jmp "
                    ELSE "jmp " \o piorom_get_jmp_condition(cond) \o ", ")
                   \o Numeral(T - dis.start_offset),
                   dis.d)

StartsWith(s, t) == Len(s) >= Len(t) /\ SubSeq(s, 1, Len(t)) = t

Contains(s, t) ==
    \E i \in 1 .. (Len(s) - Len(t) + 1) : SubSeq(s, i, i + Len(t) - 1) = t

\* the mnemonics of an instruction class
MnemonicsOf(opcode) ==
    CASE opcode = 0 -> {"jmp"}
      [] opcode = 1 -> {"wait"}
      [] opcode = 2 -> {"in"}
      [] opcode = 3 -> {"out"}
      [] opcode = 4 -> {"push", "pull", "mov"}
      [] opcode = 5 -> {"mov", "nop"}
      [] opcode = 6 -> {"irq"}
      [] opcode = 7 -> {"set"}

\* the word selects an entry the instruction set leaves undefined
UndefinedSelector(w) ==
    LET sel == BitAnd(Shr(w, 5), 7)
    IN  \/ OpcodeOf(w) = 2 /\ sel \in {4, 5}
        \/ OpcodeOf(w) = 5 /\ BitAnd(Shr(w, 3), 3) = 3
        \/ OpcodeOf(w) = 5 /\ BitAnd(w, 7) = 4
        \/ OpcodeOf(w) = 7 /\ sel \in {3, 5, 6, 7}

\* the size of the buffer the caller is told to provide
OutStrBytes == 64

\* C11: for every 16-bit word and origin the decoder leaves in out_str a
\* text that is not empty, begins with a mnemonic of the word's class
\* (jmp, wait, in, out, push, pull, mov, nop, irq, set) and fits with its
\* terminating NUL in 64 bytes; a word with an undefined selector is
\* rendered with the placeholder "reserved" or "???".
C11_DecodeTotal ==
    dis.decoded =>
        /\ Len(dis.out_str) >= 1
        /\ Len(dis.out_str) + 1 <= OutStrBytes
        /\ \E mn \in MnemonicsOf(OpcodeOf(dis.instr)) :
              dis.out_str = mn \/ StartsWith(dis.out_str, mn \o " ")
        /\ UndefinedSelector(dis.instr) =>
              Contains(dis.out_str, "reserved") \/ Contains(dis.out_str, "???")

\* a SET word with an undefined destination and the longest operands
C11_Witness ==
    /\ dis.decoded
    /\ OpcodeOf(dis.instr) = 7
    /\ BitAnd(Shr(dis.instr, 5), 7) = 3
    /\ dis.start_offset = 255
    /\ dis.out_str = "set reserved, 31 [31]"

(***************************************************************************)
(* The example program run to its end.                                     *)
(***************************************************************************)
Finished(p) == dis.script = p /\ gh.nops = Len(p)

InstrFmt == "    %d: 0x%04X ; %s"
InstrLines(log) == SelectSeq(log, LAMBDA l : l.fmt = InstrFmt)

\* Position of a label line in a log, 0 when the log has none.
LabelIndex(log, label) ==
    IF \E i \in 1 .. Len(log) : log[i].fmt = label
    THEN CHOOSE i \in 1 .. Len(log) :
            /\ log[i].fmt = label
            /\ \A j \in 1 .. i - 1 : log[j].fmt # label
    ELSE 0
InstrsBefore(log, i) == Len(InstrLines(SubSeq(log, 1, i - 1)))

\* The instruction number .wrap_target precedes and the one .wrap follows;
\* -1 when the label is not logged.
WrapTargetAt(log) ==
    IF LabelIndex(log, "  .wrap_target") = 0 THEN -1
    ELSE InstrsBefore(log, LabelIndex(log, "  .wrap_target"))
WrapAt(log) ==
    IF LabelIndex(log, "  .wrap") = 0 THEN -1
    ELSE InstrsBefore(log, LabelIndex(log, "  .wrap")) - 1

\* The state both builds are left in: cursor, descriptor of unit s of b.
Built(c, b, s, n, wb, wt) ==
    /\ c.offset[b] = n
    /\ c.first_instr[b][s] = 0
    /\ c.start[b][s] = 0
    /\ c.wrap_bottom[b][s] = wb
    /\ c.wrap_top[b][s] = wt

BlinkWords ==
    << APIO_SET_PIN_DIRS(1), APIO_ADD_DELAY(APIO_SET_PINS(1), 31),
       APIO_ADD_DELAY(APIO_SET_PINS(0), 31) >>
BlinkText == << "set pindirs, 1", "set pins, 1 [31]", "set pins, 0 [31]" >>

ThreeLines(log) ==
    /\ Len(InstrLines(log)) = 3
    /\ \A i \in 1 .. 3 :
          InstrLines(log)[i].args = <<i - 1, BlinkWords[i], BlinkText[i]>>

\* C12 as stated: select block 0, select unit 0, mark wrap-bottom, emit
\* set-pindirs, emit set-pins-high with delay 31, mark wrap-top, emit
\* set-pins-low with delay 31, set the clock divider to (15000, 0), finalize
\* and enable unit 0: the cursor is 3, wrap_bottom is 0 and wrap_top is 1,
\* and the disassembly shows three instruction lines with .wrap_target and
\* .wrap around instructions 0 and 1.
C12_ScenarioWrapTopOne ==
    \A e \in BOOLEAN :
       Finished(blink(0, 0, e))
       => /\ Built(hw, 0, 0, 3, 0, 1)
          /\ Built(emu, 0, 0, 3, 0, 1)
          /\ \A log \in {dis.log.hw, dis.log.emu} :
                /\ Len(InstrLines(log)) = 3
                /\ WrapTargetAt(log) = 0
                /\ WrapAt(log) = 1

\* C12 as the code has it: after the same calls the cursor is 3, wrap_bottom
\* is 0 and wrap_top is 2, the index of the last instruction (the wrap-top
\* marker records the cursor, which is the slot of the instruction emitted
\* after it); the three words are loaded and unit 0 alone is enabled.  The
\* disassembly shows the three instructions numbered 0..2; its .wrap_target
\* and .wrap labels are placed by the wrap fields of the unit's execctrl
\* image, so they enclose instructions 0..2 when the program also calls
\* APIO_SM_EXECCTRL_SET after the markers.
C12_ScenarioWrapTopTwo ==
    \A e \in BOOLEAN :
       Finished(blink(0, 0, e))
       => /\ Built(hw, 0, 0, 3, 0, 2)
          /\ Built(emu, 0, 0, 3, 0, 2)
          /\ hw.end[0][0] = 2 /\ emu.end[0][0] = 2
          /\ \A i \in 1 .. 3 :
                /\ hw.instr_mem[0][i - 1] = U32(BlinkWords[i])
                /\ emu.instr[0][i - 1] = BlinkWords[i]
          /\ emu.max_offset[0] = 3
          /\ hw.ctrl[0] = 1 /\ emu.enabled_sms[0] = 1
          /\ ThreeLines(dis.log.hw) /\ ThreeLines(dis.log.emu)
          /\ WrapTargetAt(dis.log.hw) =
                APIO_WRAP_BOTTOM_FROM_REG(hw.sm_reg[0][0].execctrl)
          /\ WrapTargetAt(dis.log.emu) =
                APIO_WRAP_BOTTOM_FROM_REG(emu.pio_sm_reg[0][0].execctrl)
          /\ WrapAt(dis.log.emu) =
                APIO_WRAP_TOP_FROM_REG(emu.pio_sm_reg[0][0].execctrl)
          /\ e => \A log \in {dis.log.hw, dis.log.emu} :
                     WrapTargetAt(log) = 0 /\ WrapAt(log) = 2

\* the scenario has run to its end, with the execctrl image written
C12_Witness ==
    /\ Finished(blink(0, 0, TRUE))
    /\ gh.op = "APIO_ENABLE_SMS"
    /\ hw.wrap_top[0][0] = 2
    /\ Len(dis.log.emu) = 9
    /\ WrapAt(dis.log.emu) = 2

\* C13: in every state reached by selecting blocks and units, calling the
\* markers and emitting within capacity, every unit of every block has
\* first_instr <= start, on both builds.
C13_FirstInstrBeforeStart ==
    \A b \in Blocks, s \in SMs :
       /\ hw.first_instr[b][s] <= hw.start[b][s]
       /\ emu.first_instr[b][s] <= emu.start[b][s]

\* a unit whose start was marked past its first instruction, while a unit
\* selected later on the same block starts where it begins
C13_Witness ==
    /\ gh.op = "APIO_SET_SM"
    /\ gh.prev \in SMs
    /\ gh.prev # hw.sm
    /\ hw.first_instr[hw.blk][gh.prev] < hw.start[hw.blk][gh.prev]
    /\ emu.first_instr[emu.blk][gh.prev] < emu.start[emu.blk][gh.prev]
    /\ hw.first_instr[hw.blk][hw.sm] = hw.start[hw.blk][hw.sm]
    /\ hw.start[hw.blk][gh.prev] <= hw.first_instr[hw.blk][hw.sm]

\* C14: in every state reached by selecting blocks and units, calling the
\* markers and emitting within capacity (the states between a wrap-bottom
\* marker and a later wrap-top marker included), every unit of every block
\* has wrap_bottom <= wrap_top, on both builds.
C14_WrapBottomBeforeTop ==
    \A b \in Blocks, s \in SMs :
       /\ hw.wrap_bottom[b][s] <= hw.wrap_top[b][s]
       /\ emu.wrap_bottom[b][s] <= emu.wrap_top[b][s]

WrapOrdered(c, b, s) == c.wrap_bottom[b][s] <= c.wrap_top[b][s]

\* a step that breaks the order of a unit's wrap offsets is a wrap-bottom
\* marker on that unit
C14_Step ==
    \A b \in Blocks, s \in SMs :
       /\ (WrapOrdered(hw, b, s) /\ ~WrapOrdered(hw, b, s)')
             => gh'.op = "APIO_WRAP_BOTTOM" /\ hw'.blk = b /\ hw'.sm = s
       /\ (WrapOrdered(emu, b, s) /\ ~WrapOrdered(emu, b, s)')
             => gh'.op = "APIO_WRAP_BOTTOM" /\ emu'.blk = b /\ emu'.sm = s

C14_State ==
    /\ gh.op \in {"APIO_SET_SM", "APIO_WRAP_TOP"}
          => WrapOrdered(hw, hw.blk, hw.sm) /\ WrapOrdered(emu, emu.blk, emu.sm)
    /\ gh.op = "APIO_WRAP_BOTTOM"
          => /\ hw.wrap_top[hw.blk][hw.sm] <= hw.wrap_bottom[hw.blk][hw.sm]
             /\ emu.wrap_top[emu.blk][emu.sm] <= emu.wrap_bottom[emu.blk][emu.sm]

\* C14 as the code has it: within capacity, wrap_bottom <= wrap_top holds
\* for the current unit after APIO_SET_SM and after APIO_WRAP_TOP; a
\* wrap-bottom marker leaves wrap_top <= wrap_bottom (wrap_bottom is larger
\* when words were emitted since wrap_top was recorded) until the next
\* wrap-top marker or selection of the unit, and no other call breaks the
\* order of any unit's wrap offsets.
C14_WrapOrderedAfterTop == [][C14_Step]_vars /\ []C14_State

\* a wrap-top marker has restored the order that a wrap-bottom marker, called
\* one word earlier on a unit not selected since, had broken
C14_Witness ==
    /\ gh.op = "APIO_WRAP_TOP"
    /\ ~gh.selected[hw.blk][hw.sm]
    /\ hw.wrap_bottom[hw.blk][hw.sm] = hw.offset[hw.blk] - 1
    /\ hw.wrap_bottom[hw.blk][hw.sm] > 0
    /\ hw.wrap_top[hw.blk][hw.sm] = hw.offset[hw.blk]
    /\ emu.wrap_bottom[emu.blk][emu.sm] < emu.wrap_top[emu.blk][emu.sm]

ValidEnable(BLOCK, MASK) ==
    /\ BLOCK \in 0 .. 2
    /\ MASK >= 1 /\ MASK <= 15

\* C15: an enable call (APIO_ENABLE_SMS or APIO_ENABLE_SM, on either build)
\* is accepted exactly when its block is in 0..2 and its mask M satisfies
\* 1 <= M <= 15; every other call is rejected when the program is built.
C15_EnableValidated ==
    gh.op \in {"APIO_ENABLE_SMS", "APIO_ENABLE_SM"}
    => /\ gh.att.hw <=> ValidEnable(gh.att.block, gh.att.mask)
       /\ gh.att.emu <=> ValidEnable(gh.att.block, gh.att.mask)

EnableOps == {"APIO_ENABLE_SMS", "APIO_ENABLE_SM"}

\* APIO_SM_JMP_TO_START has just handed word w to the current unit as an
\* instruction to execute at once: the hardware build wrote it to the unit's
\* INSTR register, the emulated build appended it to the unit's pre_instr.
JmpIssued(w) ==
    /\ hw'.sm_reg[_apio_sm_reg_ptr(hw.blk, hw.sm)[1]][hw.sm].instr = U32(w)
    /\ emu'.pre_instr[emu.blk][emu.sm][emu.pre_instr_count[emu.blk][emu.sm]] = w
    /\ emu'.pre_instr_count[emu.blk][emu.sm] =
          emu.pre_instr_count[emu.blk][emu.sm] + 1

EnabledMaskKept == hw'.ctrl = hw.ctrl /\ emu'.enabled_sms = emu.enabled_sms

\* C16 as stated: APIO_SM_JMP_TO_START issues on the current unit an
\* unconditional JMP word whose 5-bit address equals the unit's start offset
\* at the time of the call and leaves the enabled mask alone; the enabled
\* mask changes only through the enable operations.
C16_StepAsStated ==
    /\ gh'.op = "APIO_SM_JMP_TO_START"
          => /\ \E w \in 0 .. 31 :
                   /\ w = hw.start[hw.blk][hw.sm]
                   /\ w = emu.start[emu.blk][emu.sm]
                   /\ JmpIssued(w)
             /\ EnabledMaskKept
    /\ ~EnabledMaskKept => gh'.op \in EnableOps
C16_JmpToStartAddressIsStart == [][C16_StepAsStated]_vars

\* C16 as the code has it: the word issued is the unconditional JMP whose
\* address field is the unit's start offset modulo 32 (the start offset
\* itself unless the unit was started at cursor 32, when the word is JMP 0),
\* the call leaves the enabled mask alone, and the enabled mask changes only
\* through the enable operations and, on the emulated build, through
\* APIO_ASM_INIT, which clears it.
C16_Step ==
    /\ gh'.op = "APIO_SM_JMP_TO_START"
          => /\ \E w \in 0 .. 31 :
                   /\ w = hw.start[hw.blk][hw.sm] % 32
                   /\ w = emu.start[emu.blk][emu.sm] % 32
                   /\ JmpIssued(w)
             /\ EnabledMaskKept
    /\ ~EnabledMaskKept
          => \/ gh'.op \in EnableOps
             \/ /\ gh'.op = "APIO_ASM_INIT"
                /\ hw'.ctrl = hw.ctrl
                /\ emu'.enabled_sms = [b \in Blocks |-> 0]
C16_JmpToStartAddressIsStartMod32 == [][C16_Step]_vars

\* the jump to a start offset past the first instruction was issued for a
\* unit of a block that has units enabled
C16_Witness ==
    /\ gh.op = "APIO_SM_JMP_TO_START"
    /\ hw.start[hw.blk][hw.sm] = 31
    /\ hw.sm_reg[hw.blk][hw.sm].instr = U32(31)
    /\ emu.pre_instr_count[emu.blk][emu.sm] = 1
    /\ emu.pre_instr[emu.blk][emu.sm][0] = 31
    /\ hw.ctrl[hw.blk] # 0
    /\ emu.enabled_sms[emu.blk] = hw.ctrl[hw.blk]

DelayBits == 31 * 256
IsIrqIndexMacro(m) == Contains(m[1], "IRQ")

\* C17: every instruction macro that takes an operand masks it to its field
\* (5 bits, 3 bits for IRQ indices) and APIO_ADD_DELAY masks the delay to 5
\* bits in bits 12:8: operand v and delay d give the word of v and d modulo
\* the field sizes, with the class bits 15:13 and every bit outside the two
\* fields as the macro's opcode has them.
C17_OperandsTruncated ==
    (dis.built /\ dis.m[3] # 0 /\ dis.m[1] # "")
    => LET mask == dis.m[3]
           size == mask + 1
       IN  /\ mask = (IF IsIrqIndexMacro(dis.m) THEN 7 ELSE 31)
           /\ BitAnd(dis.m[2], mask + DelayBits) = 0
           /\ dis.instr = APIO_ADD_DELAY(MacroWord(dis.m, dis.x % size),
                                         dis.d % 32)
           /\ BitAnd(dis.instr, mask) = dis.x % size
           /\ BitAnd(Shr(dis.instr, 8), 31) = dis.d % 32
           /\ OpcodeOf(dis.instr) = OpcodeOf(dis.m[2])
           /\ BitAnd(dis.instr, 65535 - mask - DelayBits) = dis.m[2]

\* an IRQ index and a delay, both out of range, were truncated
C17_Witness ==
    /\ dis.built
    /\ dis.m[1] = "APIO_IRQ_SET"
    /\ dis.x = 13
    /\ dis.d = 33
    /\ dis.instr = 49152 + 256 + 5

UnpacksTo(reg, I, F) ==
    /\ APIO_CLKDIV_INT_FROM_REG(reg) = I
    /\ APIO_CLKDIV_FRAC_FROM_REG(reg) = F

\* C18: for every integer part I in 0..65535 and fraction F in 0..255 the
\* word APIO_CLKDIV(I, F) unpacks to I and F, its bits 7:0 are zero, and the
\* word APIO_SM_CLKDIV_SET(I, F) leaves in the current unit's clkdiv image
\* unpacks to (I, F), on both builds.
C18_ClkdivRoundTrip ==
    LET I == gh.arg[1]
        F == gh.arg[2]
    IN  /\ UnpacksTo(APIO_CLKDIV(I, F), I, F)
        /\ And32(APIO_CLKDIV(I, F), U32(255)) = ZERO32
        /\ gh.op = "APIO_SM_CLKDIV_SET"
              => /\ UnpacksTo(hw.sm_reg[hw.blk][hw.sm].clkdiv, I, F)
                 /\ UnpacksTo(emu.pio_sm_reg[emu.blk][emu.sm].clkdiv, I, F)

\* the largest divider was stored
C18_Witness ==
    /\ gh.op = "APIO_SM_CLKDIV_SET"
    /\ gh.arg = <<65535, 255>>
    /\ hw.sm_reg[0][0].clkdiv = <<65535, 65280>>
    /\ emu.pio_sm_reg[0][0].clkdiv = <<65535, 65280>>

\* the delay of a word as the listing shows it
DelayOf(w) == BitAnd(Shr(w, 8), 31)
DelaySuffix(d) == IF d = 0 THEN "" ELSE " [" \o Numeral(d) \o "]"

IsMovYY(w) ==
    /\ BitAnd(Shr(w, 5), 7) = 2
    /\ BitAnd(Shr(w, 3), 3) = 0
    /\ BitAnd(w, 7) = 2

\* C19: a word of the MOV class decodes to "nop" followed by its delay
\* exactly when its destination is Y, its operation is none and its source
\* is Y; APIO_NOP is that word with delay 0; every other word of the class,
\* Y <- ~Y and Y <- ::Y included, decodes to a "mov".
C19_NopIsMovYY ==
    /\ OpcodeOf(APIO_NOP) = 5 /\ IsMovYY(APIO_NOP) /\ DelayOf(APIO_NOP) = 0
    /\ (dis.decoded /\ OpcodeOf(dis.instr) = 5)
       => /\ IF IsMovYY(dis.instr)
             THEN dis.out_str = "nop" \o DelaySuffix(DelayOf(dis.instr))
             ELSE StartsWith(dis.out_str, "mov ")
          /\ dis.instr = APIO_NOP => dis.out_str = "nop"
          /\ dis.instr = APIO_MOV_SRC_INVERT(APIO_NOP)
                => dis.out_str = "mov y, ~y"
          /\ dis.instr = APIO_MOV_SRC_REVERSE(APIO_NOP)
                => dis.out_str = "mov y, ::y"

\* a no-op with a delay was decoded
C19_Witness ==
    /\ dis.decoded
    /\ dis.instr = APIO_ADD_DELAY(APIO_NOP, 5)
    /\ dis.out_str = "nop [5]"

MacroNamed(name) == CHOOSE m \in InstrMacros : m[1] = name

PushPullText ==
    [APIO_PUSH_BLOCK |-> "push block",
     APIO_PUSH_NOBLOCK |-> "push noblock",
     APIO_PUSH_IFFULL_BLOCK |-> "push iffull block",
     APIO_PUSH_IFFULL_NOBLOCK |-> "push iffull noblock",
     APIO_PULL_BLOCK |-> "pull block",
     APIO_PULL_NOBLOCK |-> "pull noblock",
     APIO_PULL_IFEMPTY_BLOCK |-> "pull ifempty block",
     APIO_PULL_IFEMPTY_NOBLOCK |-> "pull ifempty noblock"]

Bit(w, n) == BitAnd(Shr(w, n), 1)

\* the listing of a word of class 100 without its delay
PushPullMovText(w) ==
    IF Bit(w, 4) = 0
    THEN (IF Bit(w, 7) = 0 THEN "push" ELSE "pull")
         \o (IF Bit(w, 6) = 0 THEN " "
             ELSE IF Bit(w, 7) = 0 THEN " iffull " ELSE " ifempty ")
         \o (IF Bit(w, 5) = 1 THEN "block" ELSE "noblock")
    ELSE (IF Bit(w, 7) = 0 THEN "mov rxfifo[" ELSE "mov txfifo[")
         \o (IF Bit(w, 3) = 0 THEN "y" ELSE Numeral(BitAnd(w, 3)))
         \o (IF Bit(w, 7) = 0 THEN "], isr" ELSE "], osr")

\* C20: a word of class 100 with bit 4 clear decodes to push (bit 7 clear)
\* or pull (bit 7 set), with iffull / ifempty when bit 6 is set and block /
\* noblock by bit 5; with bit 4 set it decodes to "mov rxfifo[..], isr"
\* (bit 7 clear) or "mov txfifo[..], osr" (bit 7 set), indexed by y when
\* bit 3 is clear and by bits 1:0 otherwise; the delay follows.  Each of the
\* eight APIO_PUSH_* / APIO_PULL_* constants decodes to the variant it names.
C20_PushPullMovDecoded ==
    /\ \A n \in DOMAIN PushPullText :
          /\ \E m \in InstrMacros : m[1] = n /\ m[3] = 0
          /\ OpcodeOf(MacroNamed(n)[2]) = 4
    /\ (dis.decoded /\ OpcodeOf(dis.instr) = 4)
       => /\ dis.out_str =
                PushPullMovText(dis.instr) \o DelaySuffix(DelayOf(dis.instr))
          /\ \A n \in DOMAIN PushPullText :
                dis.instr = MacroNamed(n)[2] => dis.out_str = PushPullText[n]

\* APIO_PULL_IFEMPTY_BLOCK was decoded
C20_Witness ==
    /\ dis.decoded
    /\ dis.instr = MacroNamed("APIO_PULL_IFEMPTY_BLOCK")[2]
    /\ dis.instr = 32992
    /\ dis.out_str = "pull ifempty block"

LabelOps == {"APIO_LABEL_NEW", "APIO_LABEL_NEW_OFFSET"}
RegisterOps ==
    {"APIO_SM_CLKDIV_SET", "APIO_SM_EXECCTRL_SET", "APIO_SM_SHIFTCTRL_SET",
     "APIO_SM_PINCTRL_SET"}

\* the words already emitted to the selected block stay as they are
EmittedWordsKept ==
    /\ \A i \in 0 .. hw.offset[hw.blk] - 1 :
          hw'.instr_scratch[i] = hw.instr_scratch[i]
    /\ \A i \in 0 .. emu.offset[emu.blk] - 1 :
          emu'.instr[emu.blk][i] = emu.instr[emu.blk][i]

\* C21: APIO_LABEL_NEW gives the label the current block's cursor and
\* APIO_LABEL_NEW_OFFSET(N) the cursor plus N as an 8-bit value; declaring a
\* label changes nothing of the builder (cursor, descriptors, buffer); and
\* no label declaration, marker, emit, register call or APIO_END_BLOCK
\* changes a word already emitted to the selected block.
C21_Step ==
    /\ gh'.op = "APIO_LABEL_NEW"
          => /\ gh'.label.hw = hw.offset[hw.blk]
             /\ gh'.label.emu = emu.offset[emu.blk]
    /\ gh'.op = "APIO_LABEL_NEW_OFFSET"
          => /\ gh'.label.hw = (hw.offset[hw.blk] + gh'.label.offset) % 256
             /\ gh'.label.emu = (emu.offset[emu.blk] + gh'.label.offset) % 256
    /\ gh'.op \in LabelOps => hw' = hw /\ emu' = emu
    /\ gh'.op \in LabelOps \cup MarkerOps \cup RegisterOps
                  \cup {"APIO_ADD_INSTR", "APIO_END_BLOCK"}
          => EmittedWordsKept
    /\ gh'.label # gh.label => gh'.op \in LabelOps \cup {"APIO_ASM_INIT"}
C21_LabelsCaptureCursor == [][C21_Step]_vars

\* a label declared 250 past cursor 31 wrapped to 25, after an emit
C21_Witness ==
    /\ gh.op = "APIO_LABEL_NEW_OFFSET"
    /\ gh.label = [hw |-> 25, emu |-> 25, offset |-> 250]
    /\ hw.offset[hw.blk] = 31
    /\ Len(gh.emitted[hw.blk]) = 31
    /\ hw.instr_scratch[30] = gh.emitted[hw.blk][31]

Count(log, label) == Cardinality({i \in 1 .. Len(log) : log[i].fmt = label})

\* The listing log of the current unit of build c is in order, with the
\* wrap labels at offsets wb and wt: after the three heading lines come only
\* instruction lines and labels; one instruction line per index first_instr
\* .. end, numbered from 0 upwards, each showing a word and its decoding
\* relative to first_instr; ".start" is followed by the line of the start
\* offset, with at most ".wrap_target" in between; ".wrap_target" is
\* directly followed by the line of wb and ".wrap" directly preceded by the
\* line of wt; and each label is there exactly when its offset is listed.
LogOrdered(log, c, wb, wt) ==
    LET first == c.first_instr[c.blk][c.sm]
        start == c.start[c.blk][c.sm]
        end == c.end[c.blk][c.sm]
        n == IF end >= first THEN end - first + 1 ELSE 0
        lines == InstrLines(log)
        Listed(ii) == first <= ii /\ ii <= end
        Only(label, ii) == Count(log, label) = (IF Listed(ii) THEN 1 ELSE 0)
        IsLine(k, ii) ==
            /\ k >= 1 /\ k <= Len(log)
            /\ log[k].fmt = InstrFmt
            /\ log[k].args[1] = ii - first
    IN  /\ Len(log) >= 3
        /\ \A k \in 4 .. Len(log) :
              log[k].fmt \in {InstrFmt, "  .start", "  .wrap_target", "  .wrap"}
        /\ \A k \in 1 .. 3 : log[k].fmt # InstrFmt
        /\ Len(lines) = n
        /\ \A i \in 1 .. n :
              /\ lines[i].args[1] = i - 1
              /\ lines[i].args[3] =
                    apio_instruction_decoder(lines[i].args[2], first)
        /\ Only("  .start", start)
        /\ Only("  .wrap_target", wb)
        /\ Only("  .wrap", wt)
        /\ \A k \in 1 .. Len(log) :
              /\ log[k].fmt = "  .start"
                    => \/ IsLine(k + 1, start)
                       \/ /\ log[k + 1].fmt = "  .wrap_target"
                          /\ IsLine(k + 2, start)
              /\ log[k].fmt = "  .wrap_target" => IsLine(k + 1, wb)
              /\ log[k].fmt = "  .wrap" => IsLine(k - 1, wt)

\* the listing shows the words the emulated build holds
LogShowsWords ==
    LET first == emu.first_instr[emu.blk][emu.sm]
        lines == InstrLines(dis.log.emu)
    IN  \A i \in 1 .. Len(lines) :
           first + i - 1 < APIO_MAX_PIO_INSTRS
              => lines[i].args[2] = emu.instr[emu.blk][first + i - 1]

LogKeepsState == gh'.op = "APIO_LOG_SM" => hw' = hw /\ emu' = emu

\* C22 as stated: apio_log_sm lists one instruction line for each index
\* from first_instr through end, in increasing order and numbered from
\* first_instr; ".start" comes before the line of the descriptor's start
\* offset, ".wrap_target" before the line of the descriptor's wrap_bottom
\* (after ".start" when both apply) and ".wrap" after the line of the
\* descriptor's wrap_top; the call changes no state.
C22_LogAtDescriptorWrap_State ==
    gh.op = "APIO_LOG_SM"
    => /\ LogOrdered(dis.log.hw, hw, hw.wrap_bottom[hw.blk][hw.sm],
                     hw.wrap_top[hw.blk][hw.sm])
       /\ LogOrdered(dis.log.emu, emu, emu.wrap_bottom[emu.blk][emu.sm],
                     emu.wrap_top[emu.blk][emu.sm])
C22_LogAtDescriptorWrap ==
    [][LogKeepsState]_vars /\ []C22_LogAtDescriptorWrap_State

\* C22 as the code has it: the same listing, with ".wrap_target" and
\* ".wrap" at the offsets held in the wrap fields of the unit's execctrl
\* register image, whatever the descriptor's wrap offsets are.
C22_LogAtRegisterWrap_State ==
    gh.op = "APIO_LOG_SM"
    => /\ LogOrdered(dis.log.hw, hw,
             APIO_WRAP_BOTTOM_FROM_REG(hw.sm_reg[hw.blk][hw.sm].execctrl),
             APIO_WRAP_TOP_FROM_REG(hw.sm_reg[hw.blk][hw.sm].execctrl))
       /\ LogOrdered(dis.log.emu, emu,
             APIO_WRAP_BOTTOM_FROM_REG(emu.pio_sm_reg[emu.blk][emu.sm].execctrl),
             APIO_WRAP_TOP_FROM_REG(emu.pio_sm_reg[emu.blk][emu.sm].execctrl))
       /\ LogShowsWords
C22_LogAtRegisterWrap ==
    [][LogKeepsState]_vars /\ []C22_LogAtRegisterWrap_State

\* a unit that begins past the block's first word was listed with all three
\* labels, its wrap offsets taken from the register
C22_Witness ==
    /\ gh.op = "APIO_LOG_SM"
    /\ emu.first_instr[emu.blk][emu.sm] = 30
    /\ emu.end[emu.blk][emu.sm] = 30
    /\ Len(InstrLines(dis.log.emu)) = 1
    /\ Len(dis.log.emu) = 7
    /\ Len(dis.log.hw) = 7
    /\ WrapTargetAt(dis.log.emu) = 0
    /\ WrapAt(dis.log.emu) = 0

(***************************************************************************)
(* C23: session reset of the emulated build.                               *)
(***************************************************************************)
\* every field of the emulated structure but pios_enabled is zero
EmuZeroed ==
    /\ \A b \in Blocks :
          /\ emu.irq[b] = ZERO32
          /\ emu.offset[b] = 0
          /\ emu.max_offset[b] = 0
          /\ emu.enabled_sms[b] = 0
          /\ emu.block_ended[b] = 0
          /\ emu.gpio_base[b] = ZERO32
          /\ \A i \in InstrIdx : emu.instr[b][i] = 0
    /\ \A b \in Blocks, s \in SMs :
          /\ emu.first_instr[b][s] = 0
          /\ emu.start[b][s] = 0
          /\ emu.end[b][s] = 0
          /\ emu.wrap_bottom[b][s] = 0
          /\ emu.wrap_top[b][s] = 0
          /\ emu.pio_sm_reg[b][s] = pio_sm_reg_t(ZERO32)
          /\ emu.pre_instr_count[b][s] = 0
          /\ emu.tx_fifo_count[b][s] = 0
          /\ emu.rx_fifo_count[b][s] = 0
          /\ \A i \in 0 .. (MAX_PRE_INSTRS - 1) : emu.pre_instr[b][s][i] = 0
          /\ \A i \in 0 .. (APIO_MAX_FIFO_DEPTH - 1) :
                /\ emu.tx_fifos[b][s][i] = ZERO32
                /\ emu.rx_fifos[b][s][i] = ZERO32
    /\ emu.blk = 0
    /\ emu.sm = 0

C23_Step ==
    gh'.op = "APIO_ASM_INIT" /\ gh'.nops = gh.nops + 1
        => EmuZeroed' /\ emu'.pios_enabled = emu.pios_enabled

\* C23: on the emulated build APIO_ASM_INIT leaves every field of the
\* shadow structure at zero (cursors, maximum offsets, descriptors,
\* instruction buffers, register images, queue and execute-immediate
\* contents and counts, enabled-unit masks, current block and unit) and
\* leaves pios_enabled as it was, so nothing written in an earlier session
\* can be read after it.
C23_AsmInitZeroesShadow == [][C23_Step]_vars

\* a reset that wiped queue entries, an interrupt flag and an emitted word,
\* with APIO_ENABLE_PIOS never called
C23_Witness ==
    /\ gh.op = "APIO_ASM_INIT"
    /\ gh.session = 2
    /\ {"tx_fifos", "tx_fifo_count", "irq", "instr", "offset"} \subseteq gh.wiped
    /\ emu.pios_enabled = 255
    /\ EmuZeroed

(***************************************************************************)
(* C24: the emulated queues.                                               *)
(***************************************************************************)
\* C24: on the emulated build, after any sequence of accesses through
\* APIO_TXF and APIO_RXF, the count of every unit's transmit and receive
\* queue is at most APIO_MAX_FIFO_DEPTH, so no entry at index
\* APIO_MAX_FIFO_DEPTH or above is accessed.
C24_FifoCountBounded ==
    \A b \in Blocks, s \in SMs :
        /\ emu.tx_fifo_count[b][s] <= APIO_MAX_FIFO_DEPTH
        /\ emu.rx_fifo_count[b][s] <= APIO_MAX_FIFO_DEPTH

(***************************************************************************)
(* C25: a block written after another block received words.                *)
(***************************************************************************)
\* the position within its block's program of the p-th word emitted
IndexOf(order, p) == Cardinality({q \in 1 .. p - 1 : order[q] = order[p]})

\* the block of the latest word emitted at position i
LastWriter(order, i) ==
    LET ps == {p \in DOMAIN order : IndexOf(order, p) = i}
    IN  order[CHOOSE p \in ps : \A q \in ps : q <= p]

\* block Y received a word after block X received one
EmittedAfter(Y, X) ==
    \E p, q \in DOMAIN gh.order :
        p < q /\ gh.order[p] = X /\ gh.order[q] = Y

Cursor(b) == Len(gh.emitted[b])

\* the instruction memory of block b on each build
InstrMemory ==
    [hw |-> [b \in Blocks |-> hw.instr_mem[b]],
     emu |-> [b \in Blocks |-> [i \in InstrIdx |-> U32(emu.instr[b][i])]]]

\* C25 as stated: when words were emitted to X, then Y was selected and
\* words were emitted to Y, and X is then selected again and written with
\* APIO_END_BLOCK, X's instruction memory holds, at every index below
\* min(cursor[X], cursor[Y]), the word emitted to Y at that index.
C25_FinalizeWritesOtherBlock ==
    gh.op = "APIO_END_BLOCK" =>
        \A Y \in Blocks \ {hw.blk} :
            EmittedAfter(Y, hw.blk) =>
                \A i \in 0 .. Cursor(hw.blk) - 1 :
                    i < Cursor(Y) =>
                        \A build \in {"hw", "emu"} :
                            InstrMemory[build][hw.blk][i]
                                = U32(gh.emitted[Y][i + 1])

\* C25 as the code has it: on the hardware build APIO_END_BLOCK writes to
\* X's instruction memory, at every index below cursor[X], the word emitted
\* last at that index to any block, which is Y's word where Y received a
\* word at that index after X did and X's own word elsewhere; on the
\* emulated build X's instruction memory holds X's own words.
C25_FinalizeWritesLatestWords ==
    gh.op = "APIO_END_BLOCK" =>
        \A i \in 0 .. Cursor(hw.blk) - 1 :
            /\ hw.instr_mem[hw.blk][i]
                   = U32(gh.emitted[LastWriter(gh.order, i)][i + 1])
            /\ emu.instr[emu.blk][i] = gh.emitted[emu.blk][i + 1]

\* X is written after Y received two words following X's three: the first
\* two words of X's instruction memory are Y's, the third is X's own
C25_Witness ==
    /\ gh.op = "APIO_END_BLOCK"
    /\ hw.blk = 0
    /\ gh.order = <<0, 0, 0, 2, 2>>
    /\ hw.instr_mem[0][0] = U32(gh.emitted[2][1])
    /\ hw.instr_mem[0][1] = U32(gh.emitted[2][2])
    /\ hw.instr_mem[0][2] = U32(gh.emitted[0][3])
    /\ gh.emitted[2][1] # gh.emitted[0][1]
    /\ emu.instr[0][0] = gh.emitted[0][1]

(***************************************************************************)
(* C26: what selection, markers, emits and register calls leave alone.     *)
(***************************************************************************)
\* the state of a build that belongs to neither a descriptor, a register
\* image, a cursor nor an instruction buffer under construction
HwRest(c) == <<c.instr_mem, c.ctrl>>
EmuRest(c) ==
    <<c.max_offset, c.enabled_sms, c.pre_instr, c.pre_instr_count,
      c.pios_enabled, c.irq, c.tx_fifos, c.tx_fifo_count, c.rx_fifos,
      c.rx_fifo_count, c.block_ended, c.gpio_base>>

\* descriptors and register images of every unit but the current one, and
\* cursors and buffers of every block but the current one, are as they were
OtherUnitsKept ==
    /\ \A b \in Blocks, s \in SMs :
          <<b, s>> # <<hw.blk, hw.sm>> =>
              /\ \A f \in DescFields :
                    /\ hw'[f][b][s] = hw[f][b][s]
                    /\ emu'[f][b][s] = emu[f][b][s]
              /\ hw'.sm_reg[b][s] = hw.sm_reg[b][s]
              /\ emu'.pio_sm_reg[b][s] = emu.pio_sm_reg[b][s]
    /\ \A b \in Blocks \ {hw.blk} :
          /\ hw'.offset[b] = hw.offset[b]
          /\ emu'.offset[b] = emu.offset[b]
          /\ emu'.instr[b] = emu.instr[b]
    /\ hw'.blk = hw.blk /\ hw'.sm = hw.sm
    /\ emu'.blk = emu.blk /\ emu'.sm = emu.sm
    /\ HwRest(hw') = HwRest(hw)
    /\ EmuRest(emu') = EmuRest(emu)

C26_Step ==
    /\ Called("APIO_SET_BLOCK") =>
          /\ hw' = [hw EXCEPT !.blk = hw'.blk]
          /\ emu' = [emu EXCEPT !.blk = emu'.blk]
    /\ (\E op \in MarkerOps \cup RegisterOps \cup {"APIO_ADD_INSTR"} :
            Called(op)) => OtherUnitsKept
    /\ (\E op \in MarkerOps : Called(op)) =>
          /\ hw'.sm_reg = hw.sm_reg /\ emu'.pio_sm_reg = emu.pio_sm_reg
          /\ hw'.offset = hw.offset /\ emu'.offset = emu.offset
          /\ hw'.instr_scratch = hw.instr_scratch /\ emu'.instr = emu.instr
    /\ (\E op \in RegisterOps : Called(op)) =>
          /\ \A f \in DescFields : hw'[f] = hw[f] /\ emu'[f] = emu[f]
          /\ hw'.offset = hw.offset /\ emu'.offset = emu.offset
          /\ hw'.instr_scratch = hw.instr_scratch /\ emu'.instr = emu.instr
    /\ Called("APIO_ADD_INSTR") =>
          /\ \A f \in DescFields : hw'[f] = hw[f] /\ emu'[f] = emu[f]
          /\ hw'.sm_reg = hw.sm_reg /\ emu'.pio_sm_reg = emu.pio_sm_reg

CursorStep(c, d, b) ==
    \/ d.offset[b] = c.offset[b]
    \/ /\ Called("APIO_ADD_INSTR")
       /\ b = c.blk
       /\ d.offset[b] = c.offset[b] + 1

C27_Step ==
    gh'.session = gh.session =>
        \A b \in Blocks : CursorStep(hw, hw', b) /\ CursorStep(emu, emu', b)

DescriptorOrdered(c, b, s) ==
    /\ c.first_instr[b][s] <= c.wrap_top[b][s]
    /\ c.wrap_top[b][s] <= c.end[b][s]
    /\ c.end[b][s] <= c.offset[b]
    /\ c.first_instr[b][s] <= c.wrap_bottom[b][s]
    /\ c.wrap_bottom[b][s] <= c.offset[b]
    /\ c.first_instr[b][s] <= c.start[b][s]
    /\ c.start[b][s] <= c.offset[b]

C27_State ==
    \A b \in Blocks, s \in SMs :
        DescriptorOrdered(hw, b, s) /\ DescriptorOrdered(emu, b, s)

\* C27: within a session and within capacity a block's cursor never
\* decreases and changes only by an emit, by one; and in every reachable
\* state every (block, unit) has first_instr <= wrap_top <= end <= cursor,
\* first_instr <= wrap_bottom <= cursor and first_instr <= start <= cursor,
\* whatever the order of markers, emits and selections.
C27_CursorAndDescriptorOrder == [][C27_Step]_vars /\ []C27_State

\* markers between emits, every inequality strict but wrap_top = end
C27_Witness ==
    /\ gh.op = "APIO_ADD_INSTR"
    /\ \A c \in {hw, emu} :
          /\ c.first_instr[0][0] < c.wrap_bottom[0][0]
          /\ c.wrap_bottom[0][0] < c.wrap_top[0][0]
          /\ c.wrap_top[0][0] = c.end[0][0]
          /\ c.end[0][0] < c.offset[0]
          /\ c.offset[0] = APIO_MAX_PIO_INSTRS

(***************************************************************************)
(* C28: what a second enable call leaves enabled.                          *)
(***************************************************************************)
C28_Step ==
    /\ Called("APIO_ENABLE_SMS") =>
          \E b \in Blocks, M2 \in 1 .. 15 :
              /\ hw'.ctrl = [hw.ctrl EXCEPT ![b] = M2]
              /\ emu'.enabled_sms = [emu.enabled_sms EXCEPT ![b] = M2]
    /\ Called("APIO_ENABLE_SM") =>
          \E b \in Blocks, M2 \in 0 .. 14 :
              /\ hw'.ctrl = [hw.ctrl EXCEPT ![b] = M2]
              /\ emu'.enabled_sms =
                    [emu.enabled_sms EXCEPT ![b] = BitOr(emu.enabled_sms[b], M2)]

\* C28: on the hardware build APIO_ENABLE_SMS and APIO_ENABLE_SM both write
\* the 4-bit mask over the block's control register, so after enabling M1
\* and then M2 exactly M2 is enabled; on the emulated build APIO_ENABLE_SMS
\* likewise leaves exactly M2, while APIO_ENABLE_SM leaves M1 | M2.
C28_EnableOverwritesOrAccumulates == [][C28_Step]_vars

\* APIO_ENABLE_SM with mask 6 after mask 1 on block 0: units 1 and 2 on the
\* hardware build, units 0, 1 and 2 on the emulated build
C28_Witness ==
    /\ gh.op = "APIO_ENABLE_SM"
    /\ hw.ctrl[0] = 6
    /\ emu.enabled_sms[0] = 7

(***************************************************************************)
(* C29: the wrap bounds in EXECCTRL against the descriptor's.              *)
(***************************************************************************)
\* the wrap bounds held by the unit's EXECCTRL image on each build
RegWrap(b, s) ==
    [hw |-> <<APIO_WRAP_BOTTOM_FROM_REG(hw.sm_reg[b][s].execctrl),
              APIO_WRAP_TOP_FROM_REG(hw.sm_reg[b][s].execctrl)>>,
     emu |-> <<APIO_WRAP_BOTTOM_FROM_REG(emu.pio_sm_reg[b][s].execctrl),
               APIO_WRAP_TOP_FROM_REG(emu.pio_sm_reg[b][s].execctrl)>>]

\* the wrap bounds held by the unit's descriptor on each build
DescWrap(b, s) ==
    [hw |-> <<hw.wrap_bottom[b][s], hw.wrap_top[b][s]>>,
     emu |-> <<emu.wrap_bottom[b][s], emu.wrap_top[b][s]>>]

WasSet(b, s) == gh.at_set[b][s] # <<-1, -1>>

\* C29 as stated: when a block is written with APIO_END_BLOCK, the wrap
\* bounds in EXECCTRL of a unit for which APIO_SM_EXECCTRL_SET was called
\* equal the descriptor's wrap_bottom and wrap_top exactly when no wrap
\* marker and no selection of the unit followed the last such call.
C29_RegisterWrapIffUntouched ==
    gh.op = "APIO_END_BLOCK" =>
        \A s \in SMs :
            WasSet(hw.blk, s) =>
                (RegWrap(hw.blk, s) = DescWrap(hw.blk, s)
                    <=> ~gh.after_set[hw.blk][s])

\* C29 as the code has it: for caller bits outside the wrap fields, the wrap
\* bounds in EXECCTRL are, in every later state of the session, the
\* descriptor's wrap_bottom and wrap_top modulo 32 as they were when
\* APIO_SM_EXECCTRL_SET was last called for the unit; no marker or selection
\* changes them; and while no wrap marker or selection of the unit follows
\* that call the descriptor still holds those values.  Register and
\* descriptor therefore agree exactly when the descriptor's bounds are
\* below 32 and are what they were at that call.
C29_RegisterWrapIsSnapshot ==
    \A b \in Blocks, s \in SMs :
        WasSet(b, s) =>
            LET snap == <<gh.at_set[b][s][1] % 32, gh.at_set[b][s][2] % 32>>
            IN  /\ RegWrap(b, s).hw = snap
                /\ RegWrap(b, s).emu = snap
                /\ ~gh.after_set[b][s] =>
                      /\ DescWrap(b, s).hw = gh.at_set[b][s]
                      /\ DescWrap(b, s).emu = gh.at_set[b][s]
                /\ (RegWrap(b, s) = DescWrap(b, s)
                      <=> /\ DescWrap(b, s).hw = gh.at_set[b][s]
                          /\ DescWrap(b, s).emu = gh.at_set[b][s]
                          /\ gh.at_set[b][s][1] < 32
                          /\ gh.at_set[b][s][2] < 32)

\* a block written after a wrap marker or a selection of the unit followed
\* APIO_SM_EXECCTRL_SET one emit later: the descriptor's wrap top moved, the
\* register's did not
C29_Witness ==
    /\ gh.op = "APIO_END_BLOCK"
    /\ WasSet(hw.blk, hw.sm)
    /\ gh.after_set[hw.blk][hw.sm]
    /\ DescWrap(hw.blk, hw.sm).hw[2] = gh.at_set[hw.blk][hw.sm][2] + 1
    /\ RegWrap(hw.blk, hw.sm).hw[2] = gh.at_set[hw.blk][hw.sm][2]
    /\ RegWrap(hw.blk, hw.sm).emu[2] = gh.at_set[hw.blk][hw.sm][2]

(***************************************************************************)
(* C30: the fields of EXECCTRL, SHIFTCTRL and PINCTRL.                     *)
(***************************************************************************)
\* bits hi:lo of a register
Bits(REG, hi, lo) == Low(And32(Shr32(REG, lo), U32(Pow2(hi - lo + 1) - 1)))

ExecctrlFields(r, c) ==
    /\ Bits(r, 4, 0) = gh.fields[3] % 32
    /\ Bits(r, 6, 5) = gh.fields[2]
    /\ Bits(r, 11, 7) = c.wrap_bottom[c.blk][c.sm] % 32
    /\ Bits(r, 16, 12) = c.wrap_top[c.blk][c.sm] % 32
    /\ Bits(r, 23, 17) = 0
    /\ Bits(r, 28, 24) = gh.fields[1] % 32
    /\ Bits(r, 31, 29) = 0

ShiftctrlFields(r) ==
    /\ Bits(r, 4, 0) = gh.fields[1] % 32
    /\ Bits(r, 15, 5) = 0
    /\ Bits(r, 16, 16) = gh.fields[2]
    /\ Bits(r, 17, 17) = gh.fields[3]
    /\ Bits(r, 18, 18) = gh.fields[4]
    /\ Bits(r, 19, 19) = gh.fields[5]
    /\ Bits(r, 24, 20) = gh.fields[6] % 32
    /\ Bits(r, 29, 25) = gh.fields[7] % 32
    /\ Bits(r, 31, 30) = 0

PinctrlFields(r) ==
    /\ Bits(r, 4, 0) = gh.fields[1] % 32
    /\ Bits(r, 9, 5) = gh.fields[2] % 32
    /\ Bits(r, 14, 10) = gh.fields[3] % 32
    /\ Bits(r, 19, 15) = gh.fields[4] % 32
    /\ Bits(r, 25, 20) = gh.fields[5] % 64
    /\ Bits(r, 28, 26) = gh.fields[6] % 8
    /\ Bits(r, 31, 29) = gh.fields[7] % 8

\* C30: the helpers of one register occupy pairwise disjoint bit ranges:
\* EXECCTRL STATUS_N 4:0, STATUS_SEL 6:5, wrap bottom 11:7, wrap top 16:12,
\* JMP_PIN 28:24; SHIFTCTRL IN_COUNT 4:0, AUTOPUSH 16, AUTOPULL 17, shift
\* directions 18 and 19, PUSH_THRESH 24:20, PULL_THRESH 29:25; PINCTRL
\* OUT_BASE 4:0, SET_BASE 9:5, SIDE_SET_BASE 14:10, IN_BASE 19:15, OUT_COUNT
\* 25:20, SET_COUNT 28:26, SIDE_SET_COUNT 31:29.  A register built by OR-ing
\* one helper per field, on any operands, holds in each range the operand
\* of that field reduced to the range's width, and the wrap bounds that
\* APIO_SM_EXECCTRL_SET inserts are not touched by the caller's helpers.
C30_FieldsDisjoint ==
    gh.fields # <<>> =>
        LET h == hw.sm_reg[hw.blk][hw.sm]
            e == emu.pio_sm_reg[emu.blk][emu.sm]
        IN  /\ gh.op = "APIO_SM_EXECCTRL_SET" =>
                  /\ ExecctrlFields(h.execctrl, hw)
                  /\ ExecctrlFields(e.execctrl, emu)
            /\ gh.op = "APIO_SM_SHIFTCTRL_SET" =>
                  /\ ShiftctrlFields(h.shiftctrl)
                  /\ ShiftctrlFields(e.shiftctrl)
            /\ gh.op = "APIO_SM_PINCTRL_SET" =>
                  /\ PinctrlFields(h.pinctrl)
                  /\ PinctrlFields(e.pinctrl)

\* PINCTRL built with every operand 255 but IN_BASE 0: every field full,
\* IN_BASE empty
C30_Witness ==
    /\ gh.op = "APIO_SM_PINCTRL_SET"
    /\ gh.fields = <<255, 255, 255, 0, 255, 255, 255>>
    /\ hw.sm_reg[hw.blk][hw.sm].pinctrl = <<65520, 32767>>
    /\ emu.pio_sm_reg[emu.blk][emu.sm].pinctrl = <<65520, 32767>>

====
